---- MODULE Spec2Model ----
(***************************************************************************)
(* clox: scanner, chunk, single-pass Pratt compiler and stack VM.          *)
(*                                                                         *)
(* Characters are one-character strings; a C string is the sequence of its *)
(* characters followed by NUL.  Pointers into the source are 1-based       *)
(* indices into the buffer `mem`.  Doubles are modelled as sign/magnitude  *)
(* rationals with signed zero, infinities and NaN (rounding and overflow   *)
(* of finite values are not modelled).                                     *)
(***************************************************************************)
EXTENDS Integers, Sequences, FiniteSets, TLC

VARIABLES mem, scanner, parser, chunk, vm, ctl, errout, out, result, wlog, nexec,
          tokens, proc

vars == <<mem, scanner, parser, chunk, vm, ctl, errout, out, result, wlog, nexec,
          tokens, proc>>

(***************************************************************************)
(* Characters                                                              *)
(***************************************************************************)
NUL == "NUL"
\* Pseudo-character standing for a read outside the modelled buffer.
OOB == "OOB"

Digits == {"0", "1", "2", "3", "4", "5", "6", "7", "8", "9"}

Letters == {"a", "b", "c", "d", "e", "f", "g", "h", "i", "j", "k", "l", "m",
            "n", "o", "p", "q", "r", "s", "t", "u", "v", "w", "x", "y", "z",
            "A", "B", "C", "X", "Y", "Z", "_"}

isAlpha(c) == c \in Letters

isDigit(c) == c \in Digits

Max(a, b) == IF a >= b THEN a ELSE b

\* The character at index i of buffer m (*p for a pointer p).
Ch(m, i) == IF i >= 1 /\ i <= Len(m) THEN m[i] ELSE OOB

isAtEnd(m, cur) == Ch(m, cur) = NUL

peek(m, cur) == Ch(m, cur)

peekNext(m, cur) == IF isAtEnd(m, cur) THEN NUL ELSE Ch(m, cur + 1)

(***************************************************************************)
(* Tokens                                                                  *)
(***************************************************************************)
\* start is an index into the source for makeToken; for errorToken the
\* token points at a static message, kept in msg.
Token(type, start, length, line, msg) ==
    [type |-> type, start |-> start, length |-> length, line |-> line, msg |-> msg]

makeToken(type, sc) == Token(type, sc.start, sc.current - sc.start, sc.line, "")

errorToken(message, sc) == Token("TOKEN_ERROR", 0, Len(message), sc.line, message)

(***************************************************************************)
(* Scanner.  Every helper returns the new `current`, the line and `hi`,    *)
(* the highest buffer index it read.  A loop stops at OOB: the caller then *)
(* sees hi > Len(m) and resolves the out-of-bounds read itself.            *)
(***************************************************************************)
initScanner == [start |-> 1, current |-> 1, line |-> 1]

RECURSIVE commentEnd(_, _)
commentEnd(m, cur) ==
    IF peek(m, cur) # "\n" /\ ~isAtEnd(m, cur) /\ peek(m, cur) # OOB
    THEN commentEnd(m, cur + 1)
    ELSE cur

RECURSIVE skipWhitespace(_, _, _)
skipWhitespace(m, cur, line) ==
    LET c == peek(m, cur) IN
    CASE c \in {" ", "\r", "\t"} -> skipWhitespace(m, cur + 1, line)
      [] c = "\n" -> skipWhitespace(m, cur + 1, line + 1)
      [] c = "/" ->
            IF peekNext(m, cur) = "/"
            THEN skipWhitespace(m, commentEnd(m, cur), line)
            ELSE [current |-> cur, line |-> line, hi |-> cur + 1]
      [] OTHER -> [current |-> cur, line |-> line, hi |-> cur]

\* The characters start .. current-1 of the token being scanned.
Lexeme(m, start, cur) == SubSeq(m, start, cur - 1)

checkKeyword(m, sc, start, length, rest, type) ==
    IF sc.current - sc.start = start + length
       /\ SubSeq(m, sc.start + start, sc.start + start + length - 1) = rest
    THEN type
    ELSE "TOKEN_IDENTIFIER"

identifierType(m, sc) ==
    LET c0 == m[sc.start]
        c1 == m[sc.start + 1]
        long == sc.current - sc.start > 1
    IN
    CASE c0 = "a" -> checkKeyword(m, sc, 1, 2, <<"n", "d">>, "TOKEN_AND")
      [] c0 = "c" -> checkKeyword(m, sc, 1, 4, <<"l", "a", "s", "s">>, "TOKEN_CLASS")
      [] c0 = "e" -> checkKeyword(m, sc, 1, 3, <<"l", "s", "e">>, "TOKEN_ELSE")
      [] c0 = "f" /\ long /\ c1 = "a" ->
            checkKeyword(m, sc, 2, 3, <<"l", "s", "e">>, "TOKEN_FALSE")
      [] c0 = "f" /\ long /\ c1 = "o" -> checkKeyword(m, sc, 2, 1, <<"r">>, "TOKEN_FOR")
      [] c0 = "f" /\ long /\ c1 = "u" -> checkKeyword(m, sc, 2, 1, <<"n">>, "TOKEN_FUN")
      [] c0 = "i" -> checkKeyword(m, sc, 1, 1, <<"f">>, "TOKEN_IF")
      [] c0 = "n" -> checkKeyword(m, sc, 1, 2, <<"i", "l">>, "TOKEN_NIL")
      [] c0 = "o" -> checkKeyword(m, sc, 1, 1, <<"r">>, "TOKEN_OR")
      [] c0 = "p" -> checkKeyword(m, sc, 1, 4, <<"r", "i", "n", "t">>, "TOKEN_PRINT")
      [] c0 = "r" ->
            checkKeyword(m, sc, 1, 5, <<"e", "t", "u", "r", "n">>, "TOKEN_RETURN")
      [] c0 = "s" -> checkKeyword(m, sc, 1, 4, <<"u", "p", "e", "r">>, "TOKEN_SUPER")
      [] c0 = "t" /\ long /\ c1 = "h" ->
            checkKeyword(m, sc, 2, 2, <<"i", "s">>, "TOKEN_THIS")
      [] c0 = "t" /\ long /\ c1 = "r" ->
            checkKeyword(m, sc, 2, 2, <<"u", "e">>, "TOKEN_TRUE")
      [] c0 = "v" -> checkKeyword(m, sc, 1, 2, <<"a", "r">>, "TOKEN_VAR")
      [] c0 = "w" -> checkKeyword(m, sc, 1, 4, <<"h", "i", "l", "e">>, "TOKEN_WHILE")
      [] OTHER -> "TOKEN_IDENTIFIER"

RECURSIVE identifierEnd(_, _)
identifierEnd(m, cur) ==
    IF isAlpha(peek(m, cur)) \/ isDigit(peek(m, cur))
    THEN identifierEnd(m, cur + 1)
    ELSE cur

\* identifier(): the result of a scan is [token, scanner, hi].
identifier(m, sc) ==
    LET cur == identifierEnd(m, sc.current)
        sc2 == [sc EXCEPT !.current = cur]
    IN [token |-> makeToken(identifierType(m, sc2), sc2), scanner |-> sc2, hi |-> cur]

RECURSIVE digitsEnd(_, _)
digitsEnd(m, cur) == IF isDigit(peek(m, cur)) THEN digitsEnd(m, cur + 1) ELSE cur

number(m, sc) ==
    LET c1 == digitsEnd(m, sc.current)
        frac == peek(m, c1) = "." /\ isDigit(peekNext(m, c1))
        c2 == IF frac THEN digitsEnd(m, c1 + 1) ELSE c1
        sc2 == [sc EXCEPT !.current = c2]
    IN [token |-> makeToken("TOKEN_NUMBER", sc2), scanner |-> sc2,
        hi |-> IF peek(m, c1) = "." THEN Max(c1 + 1, c2) ELSE c2]

\* The loop of string(): current and line when it stops.
RECURSIVE stringEnd(_, _, _)
stringEnd(m, cur, line) ==
    IF peek(m, cur) # "\"" /\ ~isAtEnd(m, cur) /\ peek(m, cur) # OOB
    THEN stringEnd(m, cur + 1, IF peek(m, cur) = "\n" THEN line + 1 ELSE line)
    ELSE [current |-> cur, line |-> line]

string(m, sc) ==
    LET e == stringEnd(m, sc.current, sc.line)
        sc1 == [sc EXCEPT !.current = e.current, !.line = e.line]
        sc2 == [sc1 EXCEPT !.current = e.current + 1]
    IN IF ~isAtEnd(m, e.current)
       THEN [token |-> errorToken("Unterminated string.", sc1), scanner |-> sc1,
             hi |-> e.current]
       ELSE [token |-> makeToken("TOKEN_STRING", sc2), scanner |-> sc2,
             hi |-> e.current]

\* match(expected) applied after the first character of an operator.
match(m, cur, expected) == ~isAtEnd(m, cur) /\ peek(m, cur) = expected

SingleCharTokens ==
    [c \in {"(", ")", "{", "}", ";", ",", ".", "-", "+", "/", "*"} |->
        CASE c = "(" -> "TOKEN_LEFT_PAREN"
          [] c = ")" -> "TOKEN_RIGHT_PAREN"
          [] c = "{" -> "TOKEN_LEFT_BRACE"
          [] c = "}" -> "TOKEN_RIGHT_BRACE"
          [] c = ";" -> "TOKEN_SEMICOLON"
          [] c = "," -> "TOKEN_COMMA"
          [] c = "." -> "TOKEN_DOT"
          [] c = "-" -> "TOKEN_MINUS"
          [] c = "+" -> "TOKEN_PLUS"
          [] c = "/" -> "TOKEN_SLASH"
          [] c = "*" -> "TOKEN_STAR"]

TwoCharTokens ==
    [c \in {"!", "=", "<", ">"} |->
        CASE c = "!" -> <<"TOKEN_BANG_EQUAL", "TOKEN_BANG">>
          [] c = "=" -> <<"TOKEN_EQUAL_EQUAL", "TOKEN_EQUAL">>
          [] c = "<" -> <<"TOKEN_LESS_EQUAL", "TOKEN_LESS">>
          [] c = ">" -> <<"TOKEN_GREATER_EQUAL", "TOKEN_GREATER">>]

\* scanToken(): [token, scanner, hi].
scanToken(m, sc) ==
    LET ws == skipWhitespace(m, sc.current, sc.line)
        s0 == [start |-> ws.current, current |-> ws.current, line |-> ws.line]
        c == peek(m, s0.current)
        s1 == [s0 EXCEPT !.current = s0.current + 1]
        s2 == [s0 EXCEPT !.current = s0.current + 2]
    IN
    IF ws.hi > Len(m) THEN [token |-> makeToken("TOKEN_EOF", s0), scanner |-> s0, hi |-> ws.hi]
    ELSE IF isAtEnd(m, s0.current)
    THEN [token |-> makeToken("TOKEN_EOF", s0), scanner |-> s0, hi |-> ws.hi]
    ELSE IF isAlpha(c) THEN identifier(m, s1)
    ELSE IF isDigit(c) THEN number(m, s1)
    ELSE IF c \in DOMAIN SingleCharTokens
    THEN [token |-> makeToken(SingleCharTokens[c], s1), scanner |-> s1,
          hi |-> Max(ws.hi, s0.current)]
    ELSE IF c \in DOMAIN TwoCharTokens
    THEN IF match(m, s1.current, "=")
         THEN [token |-> makeToken(TwoCharTokens[c][1], s2), scanner |-> s2,
               hi |-> s1.current]
         ELSE [token |-> makeToken(TwoCharTokens[c][2], s1), scanner |-> s1,
               hi |-> s1.current]
    ELSE IF c = "\"" THEN string(m, s1)
    ELSE [token |-> errorToken("Unexpected character.", s1), scanner |-> s1,
          hi |-> s0.current]

(***************************************************************************)
(* Numbers: C doubles.  s is the sign (1 or -1), k the class, n/d the      *)
(* magnitude in lowest terms (0/1 for zeros, infinities and NaN).          *)
(***************************************************************************)
RECURSIVE GCD(_, _)
GCD(a, b) == IF b = 0 THEN a ELSE GCD(b, a % b)

Abs(v) == IF v < 0 THEN -v ELSE v

Sign(v) == IF v < 0 THEN -1 ELSE 1

Fin(s, n, d) ==
    IF n = 0 THEN [s |-> s, k |-> "fin", n |-> 0, d |-> 1]
    ELSE LET g == GCD(n, d) IN [s |-> s, k |-> "fin", n |-> n \div g, d |-> d \div g]

Inf(s) == [s |-> s, k |-> "inf", n |-> 0, d |-> 1]

NaN == [s |-> 1, k |-> "nan", n |-> 0, d |-> 1]

IntNum(i) == Fin(Sign(i), Abs(i), 1)

IsZero(x) == x.k = "fin" /\ x.n = 0

\* The signed numerator of x over the common denominator x.d * y.d.
Scaled(x, y) == x.s * x.n * y.d

\* -x
NumNeg(x) == IF x.k = "nan" THEN NaN ELSE [x EXCEPT !.s = -x.s]

\* x + y
NumAdd(x, y) ==
    CASE x.k = "nan" \/ y.k = "nan" -> NaN
      [] x.k = "inf" /\ y.k = "inf" -> IF x.s = y.s THEN x ELSE NaN
      [] x.k = "inf" -> x
      [] y.k = "inf" -> y
      [] OTHER ->
            LET v == Scaled(x, y) + Scaled(y, x) IN
            IF v = 0
            THEN Fin(IF x.s = -1 /\ y.s = -1 THEN -1 ELSE 1, 0, 1)
            ELSE Fin(Sign(v), Abs(v), x.d * y.d)

\* x - y
NumSub(x, y) == NumAdd(x, NumNeg(y))

\* x * y
NumMul(x, y) ==
    CASE x.k = "nan" \/ y.k = "nan" -> NaN
      [] (x.k = "inf" /\ IsZero(y)) \/ (IsZero(x) /\ y.k = "inf") -> NaN
      [] x.k = "inf" \/ y.k = "inf" -> Inf(x.s * y.s)
      [] OTHER -> Fin(x.s * y.s, x.n * y.n, x.d * y.d)

\* x / y: division by zero gives an infinity or NaN, never an error.
NumDiv(x, y) ==
    CASE x.k = "nan" \/ y.k = "nan" -> NaN
      [] x.k = "inf" /\ y.k = "inf" -> NaN
      [] IsZero(x) /\ IsZero(y) -> NaN
      [] x.k = "inf" -> Inf(x.s * y.s)
      [] y.k = "inf" -> Fin(x.s * y.s, 0, 1)
      [] IsZero(y) -> Inf(x.s * y.s)
      [] OTHER -> Fin(x.s * y.s, x.n * y.d, x.d * y.n)

\* x < y
NumLess(x, y) ==
    CASE x.k = "nan" \/ y.k = "nan" -> FALSE
      [] x.k = "inf" -> x.s = -1 /\ ~(y.k = "inf" /\ y.s = -1)
      [] y.k = "inf" -> y.s = 1
      [] OTHER -> Scaled(x, y) < Scaled(y, x)

\* x > y
NumGreater(x, y) == NumLess(y, x)

\* x == y
NumEq(x, y) ==
    CASE x.k = "nan" \/ y.k = "nan" -> FALSE
      [] x.k = "inf" \/ y.k = "inf" -> x.k = y.k /\ x.s = y.s
      [] OTHER -> Scaled(x, y) = Scaled(y, x)

DigitVal(c) ==
    CASE c = "0" -> 0 [] c = "1" -> 1 [] c = "2" -> 2 [] c = "3" -> 3 [] c = "4" -> 4
      [] c = "5" -> 5 [] c = "6" -> 6 [] c = "7" -> 7 [] c = "8" -> 8 [] c = "9" -> 9

\* The value of the decimal digits m[from .. to] (0 when there are none).
RECURSIVE DigitsValue(_, _, _)
DigitsValue(m, from, to) ==
    IF to < from THEN 0 ELSE DigitsValue(m, from, to - 1) * 10 + DigitVal(m[to])

RECURSIVE Pow10(_)
Pow10(k) == IF k = 0 THEN 1 ELSE 10 * Pow10(k - 1)

\* strtod(p, NULL) for p pointing at a digit: the longest prefix of the form
\* digits [. digits] [(e|E) [+|-] digits], which may run past the token.
\* (Hexadecimal "0x" prefixes are outside the modelled sources.)
strtod(m, start) ==
    LET iEnd == digitsEnd(m, start)
        hasDot == Ch(m, iEnd) = "."
        fEnd == IF hasDot THEN digitsEnd(m, iEnd + 1) ELSE iEnd
        nfrac == IF hasDot THEN fEnd - (iEnd + 1) ELSE 0
        mant == DigitsValue(m, start, iEnd - 1) * Pow10(nfrac)
                + (IF hasDot THEN DigitsValue(m, iEnd + 1, fEnd - 1) ELSE 0)
        isE == Ch(m, fEnd) \in {"e", "E"}
        signed == isE /\ Ch(m, fEnd + 1) \in {"+", "-"}
        eStart == IF signed THEN fEnd + 2 ELSE fEnd + 1
        eEnd == digitsEnd(m, eStart)
        hasExp == isE /\ eEnd > eStart
        ex == IF hasExp THEN DigitsValue(m, eStart, eEnd - 1) ELSE 0
        neg == hasExp /\ signed /\ Ch(m, fEnd + 1) = "-"
    IN IF neg THEN Fin(1, mant, Pow10(nfrac) * Pow10(ex))
       ELSE Fin(1, mant * Pow10(ex), Pow10(nfrac))

(***************************************************************************)
(* Values: the tagged union of value.h.  The members of the union that the *)
(* tag does not select are held at a fixed default and never read.         *)
(***************************************************************************)
NIL_VAL == [type |-> "VAL_NIL", boolean |-> FALSE, number |-> IntNum(0)]

BOOL_VAL(b) == [type |-> "VAL_BOOL", boolean |-> b, number |-> IntNum(0)]

NUMBER_VAL(x) == [type |-> "VAL_NUMBER", boolean |-> FALSE, number |-> x]

IS_NIL(v) == v.type = "VAL_NIL"

IS_BOOL(v) == v.type = "VAL_BOOL"

IS_NUMBER(v) == v.type = "VAL_NUMBER"

AS_BOOL(v) == v.boolean

AS_NUMBER(v) == v.number

\* valuesEqual that compares values of different types by their truthiness.
valuesEqualFalsey(a, b) ==
    IF a.type # b.type
    THEN (IS_NIL(a) \/ (IS_BOOL(a) /\ ~AS_BOOL(a)))
            /\ (IS_NIL(b) \/ (IS_BOOL(b) /\ ~AS_BOOL(b)))
    ELSE CASE a.type = "VAL_BOOL" -> AS_BOOL(a) = AS_BOOL(b)
           [] a.type = "VAL_NIL" -> TRUE
           [] a.type = "VAL_NUMBER" -> NumEq(AS_NUMBER(a), AS_NUMBER(b))
           [] OTHER -> FALSE

valuesEqual(a, b) ==
    IF a.type # b.type THEN FALSE
    ELSE CASE a.type = "VAL_BOOL" -> AS_BOOL(a) = AS_BOOL(b)
           [] a.type = "VAL_NIL" -> TRUE
           [] a.type = "VAL_NUMBER" -> NumEq(AS_NUMBER(a), AS_NUMBER(b))
           [] OTHER -> FALSE

\* isFalsey that also takes the number zero for false.
isFalseyZero(value) ==
    \/ IS_NIL(value)
    \/ IS_BOOL(value) /\ ~AS_BOOL(value)
    \/ IS_NUMBER(value) /\ IsZero(AS_NUMBER(value))

isFalsey(value) == IS_NIL(value) \/ (IS_BOOL(value) /\ ~AS_BOOL(value))

\* printValue: what is written to stdout.  Booleans and nil are written as
\* words; a number is written by "%g", kept here as the number it renders.
printValue(value) ==
    CASE value.type = "VAL_BOOL" ->
            [text |-> IF AS_BOOL(value) THEN "true" ELSE "false", number |-> IntNum(0)]
      [] value.type = "VAL_NIL" -> [text |-> "nil", number |-> IntNum(0)]
      [] value.type = "VAL_NUMBER" -> [text |-> "%g", number |-> AS_NUMBER(value)]

(***************************************************************************)
(* Opcodes (the OpCode enumeration, one byte each)                         *)
(***************************************************************************)
OP_CONSTANT == 0
OP_NIL == 1
OP_TRUE == 2
OP_FALSE == 3
OP_EQUAL == 4
OP_GREATER == 5
OP_LESS == 6
OP_ADD == 7
OP_SUBTRACT == 8
OP_MULTIPLY == 9
OP_DIVIDE == 10
OP_NOT == 11
OP_NEGATE == 12
OP_RETURN == 13

UINT8_MAX == 255

(***************************************************************************)
(* Chunk and ValueArray.  An array is a sequence of `capacity` slots; the  *)
(* slots at and above `count` hold what the allocator left there.          *)
(***************************************************************************)
\* Content of a byte or line slot that was allocated and never written.
Uninit == -1

\* Content of a Value slot that was allocated and never written.
UninitValue == [type |-> "uninit", boolean |-> FALSE, number |-> IntNum(0)]

GROW_CAPACITY(capacity) == IF capacity < 8 THEN 8 ELSE capacity * 2

\* reallocate to newCount slots: the old contents are kept.
GROW_ARRAY(array, oldCount, newCount, fill) ==
    [i \in 1..newCount |-> IF i <= oldCount THEN array[i] ELSE fill]

initValueArray == [values |-> <<>>, capacity |-> 0, count |-> 0]

writeValueArray(array, value) ==
    LET grown == IF array.capacity < array.count + 1
                 THEN [array EXCEPT
                         !.capacity = GROW_CAPACITY(array.capacity),
                         !.values = GROW_ARRAY(array.values, array.capacity,
                                               GROW_CAPACITY(array.capacity), UninitValue)]
                 ELSE array
    IN [grown EXCEPT !.values[array.count + 1] = value, !.count = array.count + 1]

freeValueArray(array) == initValueArray

initChunk == [count |-> 0, capacity |-> 0, code |-> <<>>, lines |-> <<>>,
              constants |-> initValueArray]

\* freeChunk that releases nothing.
freeChunkLeak(c) == c

freeChunk(c) == initChunk

\* writeChunk whose growth allocates a fresh lines array instead of
\* reallocating the old one.
writeChunkFreshLines(c, byte, line) ==
    LET grown == IF c.capacity < c.count + 1
                 THEN [c EXCEPT
                         !.capacity = GROW_CAPACITY(c.capacity),
                         !.code = GROW_ARRAY(c.code, c.capacity,
                                             GROW_CAPACITY(c.capacity), Uninit),
                         !.lines = GROW_ARRAY(<<>>, 0,
                                              GROW_CAPACITY(c.capacity), Uninit)]
                 ELSE c
    IN [grown EXCEPT !.code[c.count + 1] = byte,
                     !.lines[c.count + 1] = line,
                     !.count = c.count + 1]

writeChunk(c, byte, line) ==
    LET grown == IF c.capacity < c.count + 1
                 THEN [c EXCEPT
                         !.capacity = GROW_CAPACITY(c.capacity),
                         !.code = GROW_ARRAY(c.code, c.capacity,
                                             GROW_CAPACITY(c.capacity), Uninit),
                         !.lines = GROW_ARRAY(c.lines, c.capacity,
                                              GROW_CAPACITY(c.capacity), Uninit)]
                 ELSE c
    IN [grown EXCEPT !.code[c.count + 1] = byte,
                     !.lines[c.count + 1] = line,
                     !.count = c.count + 1]

\* addConstant returning constants.count instead of constants.count - 1.
addConstantCount(c, value) ==
    LET arr == writeValueArray(c.constants, value)
    IN [chunk |-> [c EXCEPT !.constants = arr], index |-> arr.count]

\* addConstant that hands out the index of an equal value already in the
\* pool.
addConstantShared(c, value) ==
    LET same == {i \in 1..c.constants.count : c.constants.values[i] = value}
        arr == writeValueArray(c.constants, value)
    IN IF same # {}
       THEN [chunk |-> c, index |-> (CHOOSE i \in same : TRUE) - 1]
       ELSE [chunk |-> [c EXCEPT !.constants = arr], index |-> arr.count - 1]

\* addConstant: the chunk after the call and the index returned.
addConstant(c, value) ==
    LET arr == writeValueArray(c.constants, value)
    IN [chunk |-> [c EXCEPT !.constants = arr], index |-> arr.count - 1]

(***************************************************************************)
(* Compiler: precedences, the rule table, error reporting, emission        *)
(***************************************************************************)
PREC_NONE == 0
PREC_ASSIGNMENT == 1
PREC_OR == 2
PREC_AND == 3
PREC_EQUALITY == 4
PREC_COMPARISON == 5
PREC_TERM == 6
PREC_FACTOR == 7
PREC_UNARY == 8
PREC_CALL == 9
PREC_PRIMARY == 10

ParseRule(prefix, infix, precedence) ==
    [prefix |-> prefix, infix |-> infix, precedence |-> precedence]

\* rules[]: every token type not listed below is {NULL, NULL, PREC_NONE}.
rules(type) ==
    CASE type = "TOKEN_LEFT_PAREN" -> ParseRule("grouping", "NULL", PREC_NONE)
      [] type = "TOKEN_MINUS" -> ParseRule("unary", "binary", PREC_TERM)
      [] type = "TOKEN_PLUS" -> ParseRule("NULL", "binary", PREC_TERM)
      [] type = "TOKEN_SLASH" -> ParseRule("NULL", "binary", PREC_FACTOR)
      [] type = "TOKEN_STAR" -> ParseRule("NULL", "binary", PREC_FACTOR)
      [] type = "TOKEN_BANG" -> ParseRule("unary", "NULL", PREC_NONE)
      [] type = "TOKEN_BANG_EQUAL" -> ParseRule("NULL", "binary", PREC_EQUALITY)
      [] type = "TOKEN_EQUAL_EQUAL" -> ParseRule("NULL", "binary", PREC_EQUALITY)
      [] type = "TOKEN_GREATER" -> ParseRule("NULL", "binary", PREC_COMPARISON)
      [] type = "TOKEN_GREATER_EQUAL" -> ParseRule("NULL", "binary", PREC_COMPARISON)
      [] type = "TOKEN_LESS" -> ParseRule("NULL", "binary", PREC_COMPARISON)
      [] type = "TOKEN_LESS_EQUAL" -> ParseRule("NULL", "binary", PREC_COMPARISON)
      [] type = "TOKEN_NUMBER" -> ParseRule("number", "NULL", PREC_NONE)
      [] type = "TOKEN_FALSE" -> ParseRule("literal", "NULL", PREC_NONE)
      [] type = "TOKEN_NIL" -> ParseRule("literal", "NULL", PREC_NONE)
      [] type = "TOKEN_TRUE" -> ParseRule("literal", "NULL", PREC_NONE)
      [] OTHER -> ParseRule("NULL", "NULL", PREC_NONE)

\* getRule over a table whose TOKEN_STAR row has the precedence of the
\* TOKEN_PLUS row.
getRuleStarAsTerm(type) ==
    IF type = "TOKEN_STAR" THEN ParseRule("NULL", "binary", PREC_TERM) ELSE rules(type)

\* getRule over a table whose TOKEN_BANG row has the precedence of the
\* TOKEN_MINUS row and no infix handler.
getRuleBangAsTerm(type) ==
    IF type = "TOKEN_BANG" THEN ParseRule("unary", "NULL", PREC_TERM) ELSE rules(type)

getRule(type) == rules(type)

\* A static Parser before its first use: zero-filled.
ZeroToken == Token("TOKEN_LEFT_PAREN", 0, 0, 0, "")

\* One diagnostic written to stderr: "[line N] Error<loc>: <message>".
Diagnostic(m, token, message) ==
    [line |-> token.line,
     loc |-> CASE token.type = "TOKEN_EOF" -> <<" at end">>
               [] token.type = "TOKEN_ERROR" -> <<>>
               [] OTHER -> <<" at ">> \o Lexeme(m, token.start, token.start + token.length),
     message |-> message]

\* errorAt without `parser.hadError = true`.
errorAtNoFlag(m, p, err, token, message) ==
    IF p.panicMode THEN [parser |-> p, errout |-> err]
    ELSE [parser |-> [p EXCEPT !.panicMode = TRUE],
          errout |-> Append(err, Diagnostic(m, token, message))]

\* errorAt without `if (parser.panicMode) return`.
errorAtNoPanicCheck(m, p, err, token, message) ==
    [parser |-> [p EXCEPT !.panicMode = TRUE, !.hadError = TRUE],
     errout |-> Append(err, Diagnostic(m, token, message))]

\* errorAt: the parser and the error stream after the call.
errorAt(m, p, err, token, message) ==
    IF p.panicMode THEN [parser |-> p, errout |-> err]
    ELSE [parser |-> [p EXCEPT !.panicMode = TRUE, !.hadError = TRUE],
          errout |-> Append(err, Diagnostic(m, token, message))]

error(m, p, err, message) == errorAt(m, p, err, p.previous, message)

errorAtCurrent(m, p, err, message) == errorAt(m, p, err, p.current, message)

emitByte(c, p, byte) == writeChunk(c, byte, p.previous.line)

emitBytes(c, p, byte1, byte2) == emitByte(emitByte(c, p, byte1), p, byte2)

\* emitReturn that emits nothing.
emitReturnNothing(c, p) == c

emitReturn(c, p) == emitByte(c, p, OP_RETURN)

\* makeConstant without the report of an index above UINT8_MAX.
makeConstantSilent(m, c, p, err, value) ==
    LET added == addConstant(c, value)
    IN [chunk |-> added.chunk, parser |-> p, errout |-> err,
        byte |-> IF added.index > UINT8_MAX THEN 0 ELSE added.index]

\* makeConstant: the chunk, parser and error stream after the call and the
\* byte returned.
makeConstant(m, c, p, err, value) ==
    LET added == addConstant(c, value)
        e == error(m, p, err, "Too many constants in one chunk.")
    IN IF added.index > UINT8_MAX
       THEN [chunk |-> added.chunk, parser |-> e.parser, errout |-> e.errout, byte |-> 0]
       ELSE [chunk |-> added.chunk, parser |-> p, errout |-> err, byte |-> added.index]

emitConstant(m, c, p, err, value) ==
    LET made == makeConstant(m, c, p, err, value)
    IN [made EXCEPT !.chunk = emitBytes(made.chunk, made.parser, OP_CONSTANT, made.byte)]

\* binary() with the opcodes of >= and <= exchanged.
binaryCodeExchanged(operatorType) ==
    CASE operatorType = "TOKEN_BANG_EQUAL" -> <<OP_EQUAL, OP_NOT>>
      [] operatorType = "TOKEN_EQUAL_EQUAL" -> <<OP_EQUAL>>
      [] operatorType = "TOKEN_GREATER" -> <<OP_GREATER>>
      [] operatorType = "TOKEN_GREATER_EQUAL" -> <<OP_GREATER, OP_NOT>>
      [] operatorType = "TOKEN_LESS" -> <<OP_LESS>>
      [] operatorType = "TOKEN_LESS_EQUAL" -> <<OP_LESS, OP_NOT>>
      [] operatorType = "TOKEN_PLUS" -> <<OP_ADD>>
      [] operatorType = "TOKEN_MINUS" -> <<OP_SUBTRACT>>
      [] operatorType = "TOKEN_STAR" -> <<OP_MULTIPLY>>
      [] operatorType = "TOKEN_SLASH" -> <<OP_DIVIDE>>
      [] OTHER -> <<>>

\* The bytes binary() emits for an operator token.
binaryCode(operatorType) ==
    CASE operatorType = "TOKEN_BANG_EQUAL" -> <<OP_EQUAL, OP_NOT>>
      [] operatorType = "TOKEN_EQUAL_EQUAL" -> <<OP_EQUAL>>
      [] operatorType = "TOKEN_GREATER" -> <<OP_GREATER>>
      [] operatorType = "TOKEN_GREATER_EQUAL" -> <<OP_LESS, OP_NOT>>
      [] operatorType = "TOKEN_LESS" -> <<OP_LESS>>
      [] operatorType = "TOKEN_LESS_EQUAL" -> <<OP_GREATER, OP_NOT>>
      [] operatorType = "TOKEN_PLUS" -> <<OP_ADD>>
      [] operatorType = "TOKEN_MINUS" -> <<OP_SUBTRACT>>
      [] operatorType = "TOKEN_STAR" -> <<OP_MULTIPLY>>
      [] operatorType = "TOKEN_SLASH" -> <<OP_DIVIDE>>
      [] OTHER -> <<>>

\* The bytes unary() emits.
unaryCode(operatorType) ==
    CASE operatorType = "TOKEN_BANG" -> <<OP_NOT>>
      [] operatorType = "TOKEN_MINUS" -> <<OP_NEGATE>>
      [] OTHER -> <<>>

\* The bytes literal() emits.
literalCode(type) ==
    CASE type = "TOKEN_FALSE" -> <<OP_FALSE>>
      [] type = "TOKEN_NIL" -> <<OP_NIL>>
      [] type = "TOKEN_TRUE" -> <<OP_TRUE>>
      [] OTHER -> <<>>

\* emitByte / emitBytes applied to a list of bytes.
RECURSIVE emitAll(_, _, _)
emitAll(c, p, bytes) ==
    IF bytes = <<>> THEN c ELSE emitAll(emitByte(c, p, Head(bytes)), p, Tail(bytes))

(***************************************************************************)
(* Control: the C call stack, innermost frame first.                       *)
(***************************************************************************)
Frame(fn, pc) ==
    [fn |-> fn, pc |-> pc, precedence |-> PREC_NONE, operatorType |-> "", ok |-> FALSE,
     res |-> ""]

\* A call of advance(): its first statement runs with the call.
AdvanceFrame == Frame("advance", "scan")

enterAdvance(p) == [p EXCEPT !.previous = p.current]

\* A call of parsePrecedence(precedence), which begins by calling advance().
PrecedenceFrames(precedence) ==
    <<AdvanceFrame, [Frame("parsePrecedence", "prefix") EXCEPT !.precedence = precedence]>>

Top == ctl[1]

At(fn, pc) == ctl # <<>> /\ Top.fn = fn /\ Top.pc = pc

\* The stack with the innermost frame moved to pc.
Goto(pc) == <<[Top EXCEPT !.pc = pc]>> \o Tail(ctl)

Crashed == <<Frame("crash", "")>>

(***************************************************************************)
(* Sources                                                                 *)
(***************************************************************************)
\* Most pieces an enumerated source is built from.
MaxPieces == 3

\* Most characters read after the terminator of the source before the read
\* faults.
MaxTail == 2

Pieces ==
    {<<"1">>, <<"0">>, <<"n", "i", "l">>, <<"t", "r", "u", "e">>, <<"+">>, <<"-">>,
     <<"*">>, <<"/">>, <<"(">>, <<")">>, <<"!">>, <<"=">>, <<"<">>, <<">">>, <<"\"">>,
     <<"@">>, <<" ">>}

RECURSIVE Concats(_)
Concats(k) ==
    IF k = 0 THEN {<<>>}
    ELSE LET shorter == Concats(k - 1)
         IN shorter \cup {s \o p : s \in shorter, p \in Pieces}

\* n number literals joined by "+": 1+1+...+1.
LongSum(n) == [i \in 1..(2 * n - 1) |-> IF i % 2 = 1 THEN "1" ELSE "+"]

ExampleSources ==
    {<<"1", " ", "+", " ", "2", " ", "*", " ", "3">>,
     <<"(", "-", "1", " ", "+", " ", "2", ")", " ", "*", " ", "3", " ", "-", " ", "-", "4">>,
     <<"!", "(", "5", " ", "-", " ", "4", " ", ">", " ", "3", " ", "*", " ", "2", " ", "=", "=", " ", "!", "n", "i", "l", ")">>,
     <<"1", " ", "+", " ", "t", "r", "u", "e">>,
     <<"(", "1", " ", "+", " ", "2">>,
     <<"n", "i", "l", " ", "=", "=", " ", "f", "a", "l", "s", "e">>,
     <<"f", "a", "l", "s", "e", " ", "=", "=", " ", "!", "t", "r", "u", "e">>,
     <<"2", " ", ">", "=", " ", "1">>,
     <<"1", " ", "<", "=", " ", "2">>,
     <<"1", " ", "!", "=", " ", "2">>,
     <<"2", " ", ">", " ", "1">>,
     <<"0", "/", "0", " ", ">", "=", " ", "1">>,
     <<"1", "/", "0", " ", ">", " ", "2">>,
     <<"-", "0", " ", "=", "=", " ", "0">>,
     <<"1", ".", "5", " ", "+", " ", "2", ".", "2", "5", " ", "*", " ", "2">>,
     <<"8", " ", "-", " ", "3", " ", "-", " ", "2">>,
     <<"8", " ", "/", " ", "4", " ", "/", " ", "2">>,
     <<"1", " ", "+", "\n", " ", "t", "r", "u", "e">>,
     <<"\n", "\n", "-", "n", "i", "l">>,
     <<"1", " ", "/", "/", " ", "c", "\n", "+", " ", "2">>,
     <<"\"", "a", "b", "\"">>,
     <<"1", "2", " ", "\"", "a", "b">>,
     <<"1", " ", "@", " ", "2">>,
     <<"1", " ", "1">>,
     <<"1", " ", "+">>,
     <<"(", "1", ")", ")">>,
     <<"a", " ", "+", " ", "1">>,
     <<"t", "r", "u", "e", " ", "!", "=", " ", "(", "1", " ", "<", " ", "2", ")">>,
     <<"!", "!", "0">>,
     <<"-", "(", "-", "(", "1", ")", ")">>}

LongSources == {LongSum(UINT8_MAX + 1), LongSum(UINT8_MAX + 2), LongSum(UINT8_MAX + 3)}

\* Operand expressions: one of each kind of value the VM can hold (nil, the
\* booleans, zero of either sign, finite numbers, NaN and an infinity).
OperandTexts ==
    {<<"n", "i", "l">>, <<"t", "r", "u", "e">>, <<"f", "a", "l", "s", "e">>,
     <<"0">>, <<"-", "0">>, <<"1">>, <<"2">>,
     <<"(", "0", "/", "0", ")">>, <<"(", "1", "/", "0", ")">>}

BinaryTexts ==
    {<<"=", "=">>, <<"!", "=">>, <<"<">>, <<"<", "=">>, <<">">>, <<">", "=">>,
     <<"+">>, <<"-">>, <<"*">>, <<"/">>}

\* Every binary operator on every pair of operands, the unary operators
\* applied up to three times to every operand, and every numeric operator
\* evaluated above another value on the stack.
OperandSources ==
    {a \o <<" ">> \o op \o <<" ">> \o b :
        a \in OperandTexts, op \in BinaryTexts, b \in OperandTexts}
    \cup {u \o a : u \in {<<"!">>, <<"!", "!">>, <<"!", "!", "!">>, <<"-">>},
                   a \in OperandTexts}
    \cup {<<"n", "i", "l", " ", "=", "=", " ">> \o a \o op \o b :
            a \in {<<"0">>, <<"1">>, <<"2">>},
            op \in BinaryTexts \ {<<"=", "=">>, <<"!", "=">>},
            b \in {<<"0">>, <<"1">>, <<"2">>}}

\* Failing instructions whose line differs from the line of the instruction
\* before or after them.
Src_negate_then_line == <<"-", "n", "i", "l", "\n", "+", " ", "1">>

Src_negate_after_line == <<"-", "(", "n", "i", "l", "\n", ")">>

LineSources == {Src_negate_then_line, Src_negate_after_line}

Sources ==
    Concats(MaxPieces) \cup ExampleSources \cup LongSources \cup OperandSources
        \cup LineSources

\* What an out-of-bounds read of the source buffer may find.
GarbageChars == {NUL, "1", "\""}

\* The index of the terminator of the source in the buffer.
NulPos(m) == CHOOSE i \in 1..Len(m) : m[i] = NUL /\ \A j \in 1..(i - 1) : m[j] # NUL

\* The extensions of buffer m by characters found behind it.
GarbageExt(m) ==
    UNION {[1..n -> GarbageChars] : n \in 1..(MaxTail - (Len(m) - NulPos(m)))}

(***************************************************************************)
(* State                                                                   *)
(*   mem      the buffer holding the source, its NUL and what was read     *)
(*            behind it                                                    *)
(*   scanner  the Scanner singleton                                        *)
(*   parser   the Parser singleton                                         *)
(*   chunk    the Chunk local of interpret (compilingChunk, vm.chunk)      *)
(*   vm       the VM singleton: ip is the offset vm.ip - vm.chunk->code,   *)
(*            stack the slots vm.stack .. vm.stackTop - 1                  *)
(*   ctl      the call stack                                               *)
(*   errout   stderr, out stdout                                           *)
(*   result   what interpret returned ("" while it runs)                   *)
(*   wlog     history: the (byte, line) of every writeChunk call made      *)
(*            through the chunk interface                                  *)
(*   nexec    history: instructions dispatched by run()                    *)
(*   tokens   history: for every scanToken call made through the scanner  *)
(*            interface, the token returned and the scanner's start and    *)
(*            current after the call                                       *)
(*   proc     the process around interpret: argc, whether the file named   *)
(*            by argv[1] can be read (path), the bytes of the file or of   *)
(*            stdin (given) and those still unread (input), the exit       *)
(*            status (-1 while the process runs), and as history the       *)
(*            number of interpret calls made (started), the length of      *)
(*            stdout when the last one was made (outAt) and the source,    *)
(*            status and printed values of every call that returned        *)
(***************************************************************************)
STACK_MAX == 256

\* The process of a specification that starts inside interpret.
NoProc ==
    [argc |-> 0, path |-> "", given |-> <<>>, input |-> <<>>, exit |-> -1,
     started |-> 0, outAt |-> 0, calls |-> <<>>]

Init ==
    /\ \E src \in Sources : mem = src \o <<NUL>>
    /\ scanner = [start |-> 0, current |-> 0, line |-> 0]
    /\ parser = [current |-> ZeroToken, previous |-> ZeroToken,
                 hadError |-> FALSE, panicMode |-> FALSE]
    /\ chunk = initChunk
    /\ vm = [chunk |-> "NULL", ip |-> 0, stack |-> <<>>]
    /\ ctl = <<Frame("interpret", "begin")>>
    /\ errout = <<>>
    /\ out = <<>>
    /\ result = ""
    /\ wlog = <<>>
    /\ nexec = 0
    /\ tokens = <<>>
    /\ proc = NoProc

\* interpret, lines 170-173: initChunk, then the call of compile.
InterpretBegin ==
    /\ At("interpret", "begin")
    /\ chunk' = initChunk
    /\ ctl' = <<Frame("compile", "begin")>> \o Goto("compiled")
    /\ UNCHANGED <<mem, scanner, parser, vm, errout, out, result, wlog, tokens, proc, nexec>>

\* compile, lines 395-401: bind the scanner, reset the flags, call advance.
CompileBegin ==
    /\ At("compile", "begin")
    /\ scanner' = initScanner
    /\ parser' = enterAdvance([parser EXCEPT !.hadError = FALSE, !.panicMode = FALSE])
    /\ ctl' = <<AdvanceFrame>> \o Goto("expression")
    /\ UNCHANGED <<mem, chunk, vm, errout, out, result, wlog, tokens, proc, nexec>>

\* One iteration of the loop of advance() with scanToken's result r over
\* buffer m.
AdvanceWith(m, r) ==
    LET p1 == [parser EXCEPT !.current = r.token]
        e == errorAtCurrent(m, p1, errout, r.token.msg)
    IN /\ mem' = m
       /\ scanner' = r.scanner
       /\ IF r.token.type # "TOKEN_ERROR"
          THEN parser' = p1 /\ errout' = errout /\ ctl' = Tail(ctl)
          ELSE parser' = e.parser /\ errout' = e.errout /\ ctl' = ctl

\* advance, lines 106-111.  A scan that reads behind the buffer either
\* faults or finds arbitrary characters there.
AdvanceScan ==
    /\ At("advance", "scan")
    /\ LET r0 == scanToken(mem, scanner) IN
       IF r0.hi <= Len(mem)
       THEN AdvanceWith(mem, r0)
       ELSE \/ ctl' = Crashed /\ UNCHANGED <<mem, scanner, parser, errout>>
            \/ \E ext \in GarbageExt(mem) :
                  LET m2 == mem \o ext
                      r == scanToken(m2, scanner)
                  IN r.hi = Len(m2) /\ AdvanceWith(m2, r)
    /\ UNCHANGED <<chunk, vm, out, result, wlog, tokens, proc, nexec>>

\* compile, line 402: expression() is parsePrecedence(PREC_ASSIGNMENT).
CompileExpression ==
    /\ At("compile", "expression")
    /\ parser' = enterAdvance(parser)
    /\ ctl' = PrecedenceFrames(PREC_ASSIGNMENT) \o Goto("consume")
    /\ UNCHANGED <<mem, scanner, chunk, vm, errout, out, result, wlog, tokens, proc, nexec>>

\* parsePrecedence, lines 345-351: look up and call the prefix handler.
PrefixRule ==
    /\ At("parsePrecedence", "prefix")
    /\ LET prefixRule == getRule(parser.previous.type).prefix
           e == error(mem, parser, errout, "Expect expression.")
       IN IF prefixRule = "NULL"
          THEN parser' = e.parser /\ errout' = e.errout /\ ctl' = Tail(ctl)
          ELSE parser' = parser /\ errout' = errout
               /\ ctl' = <<Frame(prefixRule, "body")>> \o Goto("loop")
    /\ UNCHANGED <<mem, scanner, chunk, vm, out, result, wlog, tokens, proc, nexec>>

\* number, lines 257-260.
Number ==
    /\ At("number", "body")
    /\ LET value == strtod(mem, parser.previous.start)
           made == emitConstant(mem, chunk, parser, errout, NUMBER_VAL(value))
       IN chunk' = made.chunk /\ parser' = made.parser /\ errout' = made.errout
    /\ ctl' = Tail(ctl)
    /\ UNCHANGED <<mem, scanner, vm, out, result, wlog, tokens, proc, nexec>>

\* literal, lines 229-236.
Literal ==
    /\ At("literal", "body")
    /\ chunk' = emitAll(chunk, parser, literalCode(parser.previous.type))
    /\ ctl' = Tail(ctl)
    /\ UNCHANGED <<mem, scanner, parser, vm, errout, out, result, wlog, tokens, proc, nexec>>

\* grouping, line 246: expression().
GroupingBegin ==
    /\ At("grouping", "body")
    /\ parser' = enterAdvance(parser)
    /\ ctl' = PrecedenceFrames(PREC_ASSIGNMENT) \o Goto("consume")
    /\ UNCHANGED <<mem, scanner, chunk, vm, errout, out, result, wlog, tokens, proc, nexec>>

\* consume(type, message) as the last statement of the innermost frame, which
\* continues with the frames `next`.
Consume(type, message, next) ==
    LET e == errorAtCurrent(mem, parser, errout, message)
    IN IF parser.current.type = type
       THEN parser' = enterAdvance(parser) /\ errout' = errout
            /\ ctl' = <<AdvanceFrame>> \o next
       ELSE parser' = e.parser /\ errout' = e.errout /\ ctl' = next

\* grouping, line 247.
GroupingConsume ==
    /\ At("grouping", "consume")
    /\ Consume("TOKEN_RIGHT_PAREN", "Expect ')' after expression.", Tail(ctl))
    /\ UNCHANGED <<mem, scanner, chunk, vm, out, result, wlog, tokens, proc, nexec>>

\* unary, lines 272-275: remember the operator, parse the operand.
UnaryBegin ==
    /\ At("unary", "body")
    /\ parser' = enterAdvance(parser)
    /\ ctl' = PrecedenceFrames(PREC_UNARY)
              \o <<[Top EXCEPT !.pc = "emit", !.operatorType = parser.previous.type]>>
              \o Tail(ctl)
    /\ UNCHANGED <<mem, scanner, chunk, vm, errout, out, result, wlog, tokens, proc, nexec>>

\* unary, lines 277-281.
UnaryEmit ==
    /\ At("unary", "emit")
    /\ chunk' = emitAll(chunk, parser, unaryCode(Top.operatorType))
    /\ ctl' = Tail(ctl)
    /\ UNCHANGED <<mem, scanner, parser, vm, errout, out, result, wlog, tokens, proc, nexec>>

\* parsePrecedence, lines 353-354: the loop test and the advance.
InfixLoop ==
    /\ At("parsePrecedence", "loop")
    /\ IF Top.precedence <= getRule(parser.current.type).precedence
       THEN parser' = enterAdvance(parser) /\ ctl' = <<AdvanceFrame>> \o Goto("infix")
       ELSE parser' = parser /\ ctl' = Tail(ctl)
    /\ UNCHANGED <<mem, scanner, chunk, vm, errout, out, result, wlog, tokens, proc, nexec>>

\* parsePrecedence, lines 355-356: look up and call the infix handler.
\* Calling a NULL handler faults.
InfixRule ==
    /\ At("parsePrecedence", "infix")
    /\ LET infixRule == getRule(parser.previous.type).infix
       IN IF infixRule = "NULL"
          THEN ctl' = Crashed
          ELSE ctl' = <<Frame(infixRule, "body")>> \o Goto("loop")
    /\ UNCHANGED <<mem, scanner, parser, chunk, vm, errout, out, result, wlog, tokens, proc, nexec>>

\* binary parsing its right operand at the operator's own precedence.
BinaryBeginSamePrecedence ==
    /\ At("binary", "body")
    /\ LET operatorType == parser.previous.type
           rule == getRule(operatorType)
       IN ctl' = PrecedenceFrames(rule.precedence)
                 \o <<[Top EXCEPT !.pc = "emit", !.operatorType = operatorType]>>
                 \o Tail(ctl)
    /\ parser' = enterAdvance(parser)
    /\ UNCHANGED <<mem, scanner, chunk, vm, errout, out, result, wlog, tokens, proc, nexec>>

\* binary, lines 210-212: remember the operator, parse the right operand
\* one level above the operator's precedence.
BinaryBegin ==
    /\ At("binary", "body")
    /\ LET operatorType == parser.previous.type
           rule == getRule(operatorType)
       IN ctl' = PrecedenceFrames(rule.precedence + 1)
                 \o <<[Top EXCEPT !.pc = "emit", !.operatorType = operatorType]>>
                 \o Tail(ctl)
    /\ parser' = enterAdvance(parser)
    /\ UNCHANGED <<mem, scanner, chunk, vm, errout, out, result, wlog, tokens, proc, nexec>>

\* binary, lines 214-226.
BinaryEmit ==
    /\ At("binary", "emit")
    /\ chunk' = emitAll(chunk, parser, binaryCode(Top.operatorType))
    /\ ctl' = Tail(ctl)
    /\ UNCHANGED <<mem, scanner, parser, vm, errout, out, result, wlog, tokens, proc, nexec>>

\* compile, line 403.
CompileConsume ==
    /\ At("compile", "consume")
    /\ Consume("TOKEN_EOF", "Expect end of expression.", Goto("end"))
    /\ UNCHANGED <<mem, scanner, chunk, vm, out, result, wlog, tokens, proc, nexec>>

\* compile, lines 404-405: endCompiler, then return !parser.hadError.
CompileEnd ==
    /\ At("compile", "end")
    /\ chunk' = emitReturn(chunk, parser)
    /\ ctl' = <<[ctl[2] EXCEPT !.ok = ~parser.hadError]>> \o Tail(Tail(ctl))
    /\ UNCHANGED <<mem, scanner, parser, vm, errout, out, result, wlog, tokens, proc, nexec>>

\* interpret, lines 173-181: the test of compile's result.
InterpretCompiled ==
    /\ At("interpret", "compiled")
    /\ IF ~Top.ok
       THEN /\ chunk' = freeChunk(chunk)
            /\ result' = "INTERPRET_COMPILE_ERROR"
            /\ ctl' = Tail(ctl)
            /\ vm' = vm
       ELSE /\ vm' = [vm EXCEPT !.chunk = "chunk", !.ip = 0]
            /\ ctl' = <<Frame("run", "dispatch")>> \o Goto("ran")
            /\ chunk' = chunk
            /\ result' = result
    /\ UNCHANGED <<mem, scanner, parser, errout, out, wlog, tokens, proc, nexec>>

(***************************************************************************)
(* VM                                                                      *)
(***************************************************************************)
\* READ_BYTE() at the start of a dispatch: the byte at vm.ip.
Instruction == chunk.code[vm.ip + 1]

Dispatching(op) ==
    /\ At("run", "dispatch")
    /\ vm.ip < chunk.capacity
    /\ Instruction = op

\* run goes on with the next instruction: n bytes read, the stack as given.
\* A push onto a full stack writes behind the array: the write faults, or
\* lands in the memory behind the array and the run goes on.
Continue(n, stack) ==
    /\ IF Len(stack) > STACK_MAX
       THEN \/ vm' = vm /\ ctl' = Crashed
            \/ vm' = [vm EXCEPT !.ip = vm.ip + n, !.stack = stack] /\ ctl' = ctl
       ELSE vm' = [vm EXCEPT !.ip = vm.ip + n, !.stack = stack] /\ ctl' = ctl
    /\ nexec' = nexec + 1
    /\ UNCHANGED <<mem, scanner, parser, chunk, errout, out, result, wlog, tokens, proc>>

\* A pop or peek below the bottom of the stack.
Underflow ==
    /\ vm' = vm
    /\ ctl' = Crashed
    /\ nexec' = nexec + 1
    /\ UNCHANGED <<mem, scanner, parser, chunk, errout, out, result, wlog, tokens, proc>>

\* run returns res to interpret.
Return(res) == ctl' = <<[ctl[2] EXCEPT !.res = res]>> \o Tail(Tail(ctl))

\* The stack without its n topmost values.
Drop(stack, n) == SubSeq(stack, 1, Len(stack) - n)

\* peek(distance)
peekStack(distance) == vm.stack[Len(vm.stack) - distance]

\* runtimeError without resetStack.
runtimeErrorKeepStack(message) ==
    /\ errout' = Append(errout, [line |-> chunk.lines[(vm.ip + 1 - 1) + 1],
                                 loc |-> <<" in script">>, message |-> message])
    /\ vm' = [vm EXCEPT !.ip = vm.ip + 1]

\* runtimeError indexing lines with vm.ip - vm.chunk->code.
runtimeErrorNextByte(message) ==
    /\ errout' = Append(errout, [line |-> chunk.lines[(vm.ip + 1) + 1],
                                 loc |-> <<" in script">>, message |-> message])
    /\ vm' = [vm EXCEPT !.ip = vm.ip + 1, !.stack = <<>>]

\* runtimeError: the message and the line of the instruction just read,
\* then resetStack.
runtimeError(message) ==
    /\ errout' = Append(errout, [line |-> chunk.lines[(vm.ip + 1 - 1) + 1],
                                 loc |-> <<" in script">>, message |-> message])
    /\ vm' = [vm EXCEPT !.ip = vm.ip + 1, !.stack = <<>>]

OpConstant ==
    /\ Dispatching(OP_CONSTANT)
    /\ LET index == chunk.code[vm.ip + 2] IN
       IF index >= 0 /\ index < chunk.constants.count
       THEN Continue(2, Append(vm.stack, chunk.constants.values[index + 1]))
       ELSE Underflow

OpNil == Dispatching(OP_NIL) /\ Continue(1, Append(vm.stack, NIL_VAL))

OpTrue == Dispatching(OP_TRUE) /\ Continue(1, Append(vm.stack, BOOL_VAL(TRUE)))

OpFalse == Dispatching(OP_FALSE) /\ Continue(1, Append(vm.stack, BOOL_VAL(FALSE)))

OpEqual ==
    /\ Dispatching(OP_EQUAL)
    /\ IF Len(vm.stack) < 2 THEN Underflow
       ELSE LET b == peekStack(0)
                a == peekStack(1)
            IN Continue(1, Append(Drop(vm.stack, 2), BOOL_VAL(valuesEqual(a, b))))

\* BINARY_OP computing b op a.
binaryResultSwapped(op, a, b) ==
    CASE op = OP_GREATER -> BOOL_VAL(NumGreater(b, a))
      [] op = OP_LESS -> BOOL_VAL(NumLess(b, a))
      [] op = OP_ADD -> NUMBER_VAL(NumAdd(b, a))
      [] op = OP_SUBTRACT -> NUMBER_VAL(NumSub(b, a))
      [] op = OP_MULTIPLY -> NUMBER_VAL(NumMul(b, a))
      [] op = OP_DIVIDE -> NUMBER_VAL(NumDiv(b, a))

\* BINARY_OP(valueType, op) for the six numeric instructions.
binaryResult(op, a, b) ==
    CASE op = OP_GREATER -> BOOL_VAL(NumGreater(a, b))
      [] op = OP_LESS -> BOOL_VAL(NumLess(a, b))
      [] op = OP_ADD -> NUMBER_VAL(NumAdd(a, b))
      [] op = OP_SUBTRACT -> NUMBER_VAL(NumSub(a, b))
      [] op = OP_MULTIPLY -> NUMBER_VAL(NumMul(a, b))
      [] op = OP_DIVIDE -> NUMBER_VAL(NumDiv(a, b))

BinaryOps == {OP_GREATER, OP_LESS, OP_ADD, OP_SUBTRACT, OP_MULTIPLY, OP_DIVIDE}

OpBinary ==
    \E op \in BinaryOps :
        /\ Dispatching(op)
        /\ IF Len(vm.stack) < 2 THEN Underflow
           ELSE IF ~IS_NUMBER(peekStack(0)) \/ ~IS_NUMBER(peekStack(1))
           THEN /\ runtimeError("Operands must be numbers.")
                /\ Return("INTERPRET_RUNTIME_ERROR")
                /\ nexec' = nexec + 1
                /\ UNCHANGED <<mem, scanner, parser, chunk, out, result, wlog, tokens, proc>>
           ELSE LET b == AS_NUMBER(peekStack(0))
                    a == AS_NUMBER(peekStack(1))
                IN Continue(1, Append(Drop(vm.stack, 2), binaryResult(op, a, b)))

\* NOT popping its operand without pushing the result.
OpNotDiscard ==
    /\ Dispatching(OP_NOT)
    /\ IF Len(vm.stack) < 1 THEN Underflow
       ELSE Continue(1, Drop(vm.stack, 1))

OpNot ==
    /\ Dispatching(OP_NOT)
    /\ IF Len(vm.stack) < 1 THEN Underflow
       ELSE Continue(1, Append(Drop(vm.stack, 1), BOOL_VAL(isFalsey(peekStack(0)))))

OpNegate ==
    /\ Dispatching(OP_NEGATE)
    /\ IF Len(vm.stack) < 1 THEN Underflow
       ELSE IF ~IS_NUMBER(peekStack(0))
       THEN /\ runtimeError("Operand must be a number.")
            /\ Return("INTERPRET_RUNTIME_ERROR")
            /\ nexec' = nexec + 1
            /\ UNCHANGED <<mem, scanner, parser, chunk, out, result, wlog, tokens, proc>>
       ELSE Continue(1, Append(Drop(vm.stack, 1),
                               NUMBER_VAL(NumNeg(AS_NUMBER(peekStack(0))))))

\* RETURN printing the top of the stack without popping it.
OpReturnPeek ==
    /\ Dispatching(OP_RETURN)
    /\ IF Len(vm.stack) < 1 THEN Underflow
       ELSE /\ out' = Append(out, printValue(peekStack(0)))
            /\ vm' = [vm EXCEPT !.ip = vm.ip + 1]
            /\ Return("INTERPRET_OK")
            /\ nexec' = nexec + 1
            /\ UNCHANGED <<mem, scanner, parser, chunk, errout, result, wlog, tokens, proc>>

OpReturn ==
    /\ Dispatching(OP_RETURN)
    /\ IF Len(vm.stack) < 1 THEN Underflow
       ELSE /\ out' = Append(out, printValue(peekStack(0)))
            /\ vm' = [vm EXCEPT !.ip = vm.ip + 1, !.stack = Drop(vm.stack, 1)]
            /\ Return("INTERPRET_OK")
            /\ nexec' = nexec + 1
            /\ UNCHANGED <<mem, scanner, parser, chunk, errout, result, wlog, tokens, proc>>

\* interpret, lines 183-184: free the chunk and return run's result.
InterpretReturn ==
    /\ At("interpret", "ran")
    /\ chunk' = freeChunk(chunk)
    /\ result' = Top.res
    /\ ctl' = Tail(ctl)
    /\ UNCHANGED <<mem, scanner, parser, vm, errout, out, wlog, tokens, proc, nexec>>

Next ==
    \/ InterpretBegin
    \/ CompileBegin
    \/ AdvanceScan
    \/ CompileExpression
    \/ PrefixRule
    \/ Number
    \/ Literal
    \/ GroupingBegin
    \/ GroupingConsume
    \/ UnaryBegin
    \/ UnaryEmit
    \/ InfixLoop
    \/ InfixRule
    \/ BinaryBegin
    \/ BinaryEmit
    \/ CompileConsume
    \/ CompileEnd
    \/ InterpretCompiled
    \/ OpConstant
    \/ OpNil
    \/ OpTrue
    \/ OpFalse
    \/ OpEqual
    \/ OpBinary
    \/ OpNot
    \/ OpNegate
    \/ OpReturn
    \/ InterpretReturn

Spec == Init /\ [][Next]_vars

(***************************************************************************)
(* Termination: interpret on the example sources and the short sources,    *)
(* scheduled as long as it has a step to take.                             *)
(***************************************************************************)
TermSources == ExampleSources \cup Concats(MaxPieces - 1)

TermInit == Init /\ \E src \in TermSources : mem = src \o <<NUL>>

TermSpec == TermInit /\ [][Next]_vars /\ WF_vars(Next)

(***************************************************************************)
(* Nesting: interpret on right-nested comparisons of literals, whose       *)
(* operands all wait on the VM stack until the innermost one is pushed.    *)
(***************************************************************************)
\* Most operands of a nested source beyond the capacity of the VM stack.
MaxOverNest == 1

\* n copies of text s.
RECURSIVE Repeat(_, _)
Repeat(s, n) ==
    IF n = 0 THEN <<>>
    ELSE IF n = 1 THEN s
    ELSE Repeat(s, n \div 2) \o Repeat(s, n - (n \div 2))

\* nil==(nil==( ... nil)): n literals, n - 1 groups, no constants.
RightNested(n) ==
    Repeat(<<"n", "i", "l", "=", "=", "(">>, n - 1) \o <<"n", "i", "l">>
    \o Repeat(<<")">>, n - 1)

NestSources ==
    TermSources \cup {RightNested(STACK_MAX), RightNested(STACK_MAX + MaxOverNest)}

NestInit ==
    /\ \E src \in NestSources : mem = src \o <<NUL>>
    /\ scanner = [start |-> 0, current |-> 0, line |-> 0]
    /\ parser = [current |-> ZeroToken, previous |-> ZeroToken,
                 hadError |-> FALSE, panicMode |-> FALSE]
    /\ chunk = initChunk
    /\ vm = [chunk |-> "NULL", ip |-> 0, stack |-> <<>>]
    /\ ctl = <<Frame("interpret", "begin")>>
    /\ errout = <<>>
    /\ out = <<>>
    /\ result = ""
    /\ wlog = <<>>
    /\ nexec = 0
    /\ tokens = <<>>
    /\ proc = NoProc

NestSpec == NestInit /\ [][Next]_vars /\ WF_vars(Next)

(***************************************************************************)
(* The chunk interface on its own: any sequence of initChunk, writeChunk,  *)
(* addConstant and freeChunk calls on one chunk.                           *)
(***************************************************************************)
\* Most bytes written to the chunk between two resets.
MaxChunkWrites == 9

\* Most constants added to the chunk between two resets.
MaxChunkConstants == 2

\* The (byte, line) arguments of the writeChunk calls.
WriteArgs == {<<OP_CONSTANT, 1>>, <<OP_RETURN, 1>>, <<OP_RETURN, 2>>}

\* The arguments of the addConstant calls.
ConstantArgs == {NIL_VAL, NUMBER_VAL(IntNum(1))}

ChunkInit ==
    /\ mem = <<NUL>>
    /\ scanner = [start |-> 0, current |-> 0, line |-> 0]
    /\ parser = [current |-> ZeroToken, previous |-> ZeroToken,
                 hadError |-> FALSE, panicMode |-> FALSE]
    /\ chunk = initChunk
    /\ vm = [chunk |-> "NULL", ip |-> 0, stack |-> <<>>]
    /\ ctl = <<>>
    /\ errout = <<>>
    /\ out = <<>>
    /\ result = ""
    /\ wlog = <<>>
    /\ nexec = 0
    /\ tokens = <<>>
    /\ proc = NoProc

CallInitChunk ==
    /\ chunk' = initChunk
    /\ wlog' = <<>>
    /\ UNCHANGED <<mem, scanner, parser, vm, ctl, errout, out, result, nexec, tokens, proc>>

CallWriteChunk ==
    /\ chunk.count < MaxChunkWrites
    /\ \E a \in WriteArgs :
          /\ chunk' = writeChunk(chunk, a[1], a[2])
          /\ wlog' = Append(wlog, [byte |-> a[1], line |-> a[2]])
    /\ UNCHANGED <<mem, scanner, parser, vm, ctl, errout, out, result, nexec, tokens, proc>>

CallAddConstant ==
    /\ chunk.constants.count < MaxChunkConstants
    /\ \E v \in ConstantArgs : chunk' = addConstant(chunk, v).chunk
    /\ UNCHANGED <<mem, scanner, parser, vm, ctl, errout, out, result, wlog, tokens, proc, nexec>>

CallFreeChunk ==
    /\ chunk' = freeChunk(chunk)
    /\ wlog' = <<>>
    /\ UNCHANGED <<mem, scanner, parser, vm, ctl, errout, out, result, nexec, tokens, proc>>

ChunkNext ==
    \/ CallInitChunk
    \/ CallWriteChunk
    \/ CallAddConstant
    \/ CallFreeChunk

ChunkSpec == ChunkInit /\ [][ChunkNext]_vars

(***************************************************************************)
(* The scanner interface on its own: initScanner(source), then any number  *)
(* of scanToken calls, as a caller other than advance() may make them.     *)
(***************************************************************************)
\* Longest source scanned.
MaxScanLen == 4

\* Most scanToken calls made on one source.
MaxScans == 6

\* Whitespace, a comment character, a digit, a letter, a quote, a character
\* outside the language and an operator.
ScanChars == {" ", "\n", "/", "1", "a", "\"", "@", "="}

ScanSources == UNION {[1..n -> ScanChars] : n \in 0..MaxScanLen}

ScanInit ==
    /\ \E src \in ScanSources : mem = src \o <<NUL>>
    /\ scanner = [start |-> 0, current |-> 0, line |-> 0]
    /\ parser = [current |-> ZeroToken, previous |-> ZeroToken,
                 hadError |-> FALSE, panicMode |-> FALSE]
    /\ chunk = initChunk
    /\ vm = [chunk |-> "NULL", ip |-> 0, stack |-> <<>>]
    /\ ctl = <<Frame("scanner", "init")>>
    /\ errout = <<>>
    /\ out = <<>>
    /\ result = ""
    /\ wlog = <<>>
    /\ nexec = 0
    /\ tokens = <<>>
    /\ proc = NoProc

\* initScanner(source), lines 20-24.
CallInitScanner ==
    /\ At("scanner", "init")
    /\ scanner' = initScanner
    /\ ctl' = Goto("scan")
    /\ UNCHANGED <<mem, parser, chunk, vm, errout, out, result, wlog, tokens, proc, nexec>>

\* What a scanToken call with result r over buffer m leaves behind.
ScanWith(m, r) ==
    /\ mem' = m
    /\ scanner' = r.scanner
    /\ tokens' = Append(tokens, [token |-> r.token, start |-> r.scanner.start,
                                 current |-> r.scanner.current])
    /\ ctl' = ctl

\* scanToken(), lines 318-361.  A scan that reads behind the buffer either
\* faults or finds arbitrary characters there.
CallScanToken ==
    /\ At("scanner", "scan")
    /\ Len(tokens) < MaxScans
    /\ LET r0 == scanToken(mem, scanner) IN
       IF r0.hi <= Len(mem)
       THEN ScanWith(mem, r0)
       ELSE \/ ctl' = Crashed /\ UNCHANGED <<mem, scanner, tokens>>
            \/ \E ext \in GarbageExt(mem) :
                  LET m2 == mem \o ext
                      r == scanToken(m2, scanner)
                  IN r.hi = Len(m2) /\ ScanWith(m2, r)
    /\ UNCHANGED <<parser, chunk, vm, errout, out, result, wlog, proc, nexec>>

ScanNext ==
    \/ CallInitScanner
    \/ CallScanToken

ScanSpec == ScanInit /\ [][ScanNext]_vars

(***************************************************************************)
(* The process: main() with its arguments, the prompt loop of repl() over  *)
(* the bytes of stdin and runFile() over the bytes of a file, around the   *)
(* interpret calls modelled above.                                         *)
(***************************************************************************)
\* sizeof(line) in repl(), scaled down from 1024.
LineCap == 6

\* Most lines given on stdin.
MaxLines == 2

\* What stdin is made of: an expression, a runtime error, a compile error,
\* an opening quote, a line longer than the buffer and a last line without
\* newline.
ReplLines ==
    {<<"1", "\n">>, <<"-", "n", "i", "l", "\n">>, <<"1", "+", "\n">>,
     <<"\"", "\n">>, <<"1", "+", "2", "*", "3", "\n">>, <<"2">>}

RECURSIVE LinesUpTo(_)
LinesUpTo(k) ==
    IF k = 0 THEN {<<>>}
    ELSE LET fewer == LinesUpTo(k - 1)
         IN fewer \cup {l \o t : l \in ReplLines, t \in fewer}

\* The files run: the example sources and the empty file.
MainFiles == ExampleSources \cup {<<>>}

\* The memory line[] occupies before the first fgets.
LineFills == {[i \in 1..LineCap |-> g] : g \in GarbageChars}

MainInit ==
    /\ \E argc \in 1..3 :
          \/ /\ argc = 1
             /\ \E given \in LinesUpTo(MaxLines) :
                   proc = [NoProc EXCEPT !.argc = argc, !.given = given, !.input = given]
             /\ mem \in LineFills
          \/ /\ argc = 2
             /\ \/ \E given \in MainFiles :
                      proc = [NoProc EXCEPT !.argc = argc, !.path = "readable",
                                            !.given = given, !.input = given]
                \/ proc = [NoProc EXCEPT !.argc = argc, !.path = "missing"]
             /\ mem = <<NUL>>
          \/ /\ argc = 3
             /\ proc = [NoProc EXCEPT !.argc = argc]
             /\ mem = <<NUL>>
    /\ scanner = [start |-> 0, current |-> 0, line |-> 0]
    /\ parser = [current |-> ZeroToken, previous |-> ZeroToken,
                 hadError |-> FALSE, panicMode |-> FALSE]
    /\ chunk = initChunk
    /\ vm = [chunk |-> "NULL", ip |-> 0, stack |-> <<>>]
    /\ ctl = <<Frame("main", "begin")>>
    /\ errout = <<>>
    /\ out = <<>>
    /\ result = ""
    /\ wlog = <<>>
    /\ nexec = 0
    /\ tokens = <<>>

\* What the process writes besides values and diagnostics.
Printed(text) == [text |-> text, number |-> IntNum(0)]

Said(message) == [line |-> 0, loc |-> <<>>, message |-> message]

\* main, lines 87-96: initVM, then the choice on argc.
MainBegin ==
    /\ At("main", "begin")
    /\ vm' = [vm EXCEPT !.stack = <<>>]
    /\ CASE proc.argc = 1 ->
              /\ ctl' = <<Frame("repl", "prompt")>> \o Goto("end")
              /\ UNCHANGED <<proc, errout>>
         [] proc.argc = 2 ->
              /\ ctl' = <<Frame("runFile", "read")>> \o Goto("end")
              /\ UNCHANGED <<proc, errout>>
         [] OTHER ->
              /\ errout' = Append(errout, Said("Usage: clox [path]"))
              /\ proc' = [proc EXCEPT !.exit = 64]
              /\ ctl' = <<>>
    /\ UNCHANGED <<mem, scanner, parser, chunk, out, result, wlog, tokens, nexec>>

\* The number of bytes fgets(line, sizeof(line), stdin) takes from input: up
\* to and including the first newline, at most sizeof(line) - 1.
RECURSIVE fgetsCount(_, _)
fgetsCount(input, n) ==
    IF n = Len(input) \/ n = LineCap - 1 THEN n
    ELSE IF input[n + 1] = "\n" THEN n + 1
    ELSE fgetsCount(input, n + 1)

\* line[] after fgets stored n bytes of input and the terminator.
fgets(line, input, n) ==
    [i \in 1..LineCap |->
        IF i <= n THEN input[i] ELSE IF i = n + 1 THEN NUL ELSE line[i]]

\* A call of interpret(source) that leaves rest unread; the history fields
\* note it.
CallInterpret(rest) ==
    /\ result' = ""
    /\ proc' = [proc EXCEPT !.input = rest, !.started = proc.started + 1,
                            !.outAt = Len(out')]
    /\ ctl' = <<Frame("interpret", "begin")>> \o Goto("called")

\* The history with the interpret call that has just returned.
Logged ==
    [proc EXCEPT !.calls = Append(proc.calls,
        [src |-> SubSeq(mem, 1, NulPos(mem) - 1), status |-> result,
         out |-> SubSeq(out, proc.outAt + 1, Len(out))])]

\* repl, lines 16-23: the prompt, fgets, and the call of interpret.
ReplPrompt ==
    /\ At("repl", "prompt")
    /\ IF proc.input = <<>>
       THEN /\ out' = out \o <<Printed("> "), Printed("\n")>>
            /\ ctl' = Tail(ctl)
            /\ UNCHANGED <<mem, proc, result>>
       ELSE LET n == fgetsCount(proc.input, 0) IN
            /\ out' = Append(out, Printed("> "))
            /\ mem' = fgets(mem, proc.input, n)
            /\ CallInterpret(SubSeq(proc.input, n + 1, Len(proc.input)))
    /\ UNCHANGED <<scanner, parser, chunk, vm, errout, wlog, tokens, nexec>>

\* repl, lines 23-24: interpret has returned; its status is dropped and the
\* loop goes round.
ReplCalled ==
    /\ At("repl", "called")
    /\ proc' = Logged
    /\ ctl' = Goto("prompt")
    /\ UNCHANGED <<mem, scanner, parser, chunk, vm, errout, out, result, wlog, tokens, nexec>>

\* runFile, lines 78-79, with readFile, lines 42-67.
RunFileRead ==
    /\ At("runFile", "read")
    /\ out' = out
    /\ IF proc.path = "missing"
       THEN /\ errout' = Append(errout, Said("Could not open file"))
            /\ proc' = [proc EXCEPT !.exit = 74]
            /\ ctl' = <<>>
            /\ UNCHANGED <<mem, result>>
       ELSE /\ mem' = proc.input \o <<NUL>>
            /\ errout' = errout
            /\ CallInterpret(<<>>)
    /\ UNCHANGED <<scanner, parser, chunk, vm, wlog, tokens, nexec>>

\* The status runFile exits with, -1 when it returns instead; with the
\* two statuses exchanged.
runFileExitSwapped(res) ==
    IF res = "INTERPRET_COMPILE_ERROR" THEN 70
    ELSE IF res = "INTERPRET_RUNTIME_ERROR" THEN 65
    ELSE -1

\* runFile, lines 82-83: the status runFile exits with, -1 when it returns
\* instead.
runFileExit(res) ==
    IF res = "INTERPRET_COMPILE_ERROR" THEN 65
    ELSE IF res = "INTERPRET_RUNTIME_ERROR" THEN 70
    ELSE -1

\* runFile, lines 80-83: free the source, then exit on an error status.
RunFileCalled ==
    /\ At("runFile", "called")
    /\ LET status == runFileExit(result) IN
       /\ proc' = [Logged EXCEPT !.exit = status]
       /\ ctl' = IF status = -1 THEN Tail(ctl) ELSE <<>>
    /\ UNCHANGED <<mem, scanner, parser, chunk, vm, errout, out, result, wlog, tokens, nexec>>

\* main, lines 98-99: freeVM and return 0.
MainEnd ==
    /\ At("main", "end")
    /\ proc' = [proc EXCEPT !.exit = 0]
    /\ ctl' = <<>>
    /\ UNCHANGED <<mem, scanner, parser, chunk, vm, errout, out, result, wlog, tokens, nexec>>

MainNext ==
    \/ MainBegin
    \/ ReplPrompt
    \/ ReplCalled
    \/ RunFileRead
    \/ RunFileCalled
    \/ MainEnd
    \/ Next

MainSpec == MainInit /\ [][MainNext]_vars

(***************************************************************************)
(* Reference semantics: the grammar of the language, read off its          *)
(* productions, over the token sequence of a source.                       *)
(*   expression := equality                                                *)
(*   equality   := comparison ( ( "==" | "!=" ) comparison )*              *)
(*   comparison := term ( ( ">" | ">=" | "<" | "<=" ) term )*              *)
(*   term       := factor ( ( "+" | "-" ) factor )*                        *)
(*   factor     := unary ( ( "*" | "/" ) unary )*                          *)
(*   unary      := ( "!" | "-" ) unary | primary                           *)
(*   primary    := NUMBER | "true" | "false" | "nil" | "(" expression ")"  *)
(***************************************************************************)
\* The source held in buffer m: the characters before the terminator.
SourceOf(m) == SubSeq(m, 1, NulPos(m) - 1)

\* The next n tokens scanToken returns from scanner state sc, stopping after
\* the first EOF (done) or at a scan that reads behind the terminator
\* (fault).
RECURSIVE ScanN(_, _, _)
ScanN(m, sc, n) ==
    IF n = 0 THEN [tokens |-> <<>>, scanner |-> sc, done |-> FALSE, fault |-> FALSE]
    ELSE IF n = 1
    THEN LET r == scanToken(m, sc) IN
         IF r.hi > Len(m)
         THEN [tokens |-> <<>>, scanner |-> sc, done |-> TRUE, fault |-> TRUE]
         ELSE [tokens |-> <<r.token>>, scanner |-> r.scanner,
               done |-> r.token.type = "TOKEN_EOF", fault |-> FALSE]
    ELSE LET a == ScanN(m, sc, n \div 2) IN
         IF a.done THEN a
         ELSE LET b == ScanN(m, a.scanner, n - (n \div 2))
              IN [b EXCEPT !.tokens = a.tokens \o b.tokens]

\* The tokens of source src up to and including the first EOF; <<>> when a
\* scan reads behind the terminator.  A source of k characters has at most
\* k + 1 tokens.
TokensOf(src) ==
    LET m == src \o <<NUL>>
        r == ScanN(m, initScanner, Len(m))
    IN IF r.fault THEN <<>> ELSE r.tokens

\* The value a NUMBER token denotes: its digits, with an optional fraction.
LiteralValue(src, token) ==
    LET text == SubSeq(src, token.start, token.start + token.length - 1)
        dots == {i \in 1..Len(text) : text[i] = "."}
        dot == IF dots = {} THEN Len(text) + 1 ELSE CHOOSE i \in dots : TRUE
        nfrac == Len(text) - Max(dot, 1) + (IF dots = {} THEN 1 ELSE 0)
    IN Fin(1, DigitsValue(text, 1, dot - 1) * Pow10(nfrac)
              + DigitsValue(text, dot + 1, Len(text)), Pow10(nfrac))

\* A parse result: whether a phrase was derived, the index of the token
\* after it, its value, whether evaluating it met a non-Number operand of an
\* arithmetic or ordering operator, and the number of operand-stack slots
\* its evaluation needs (operands left to right, each result replacing its
\* operands), and the post-order of its parse tree as instructions.
Parsed(pos, val, terr, need, code) ==
    [ok |-> TRUE, pos |-> pos, val |-> val, terr |-> terr, need |-> need,
     code |-> code]

NoParse ==
    [ok |-> FALSE, pos |-> 0, val |-> NIL_VAL, terr |-> FALSE, need |-> 0,
     code |-> <<>>]

\* An instruction of a parse tree: the opcode and, for CONSTANT, the value.
Ins(op) == [op |-> op, val |-> NIL_VAL]

InsConstant(val) == [op |-> OP_CONSTANT, val |-> val]

\* The instructions that compute an operator from its operands on the stack:
\* a != b is !(a == b), a >= b is !(a < b), a <= b is !(a > b).
OperatorCode(op) ==
    CASE op = "TOKEN_EQUAL_EQUAL" -> <<Ins(OP_EQUAL)>>
      [] op = "TOKEN_BANG_EQUAL" -> <<Ins(OP_EQUAL), Ins(OP_NOT)>>
      [] op = "TOKEN_GREATER" -> <<Ins(OP_GREATER)>>
      [] op = "TOKEN_GREATER_EQUAL" -> <<Ins(OP_LESS), Ins(OP_NOT)>>
      [] op = "TOKEN_LESS" -> <<Ins(OP_LESS)>>
      [] op = "TOKEN_LESS_EQUAL" -> <<Ins(OP_GREATER), Ins(OP_NOT)>>
      [] op = "TOKEN_PLUS" -> <<Ins(OP_ADD)>>
      [] op = "TOKEN_MINUS" -> <<Ins(OP_SUBTRACT)>>
      [] op = "TOKEN_STAR" -> <<Ins(OP_MULTIPLY)>>
      [] op = "TOKEN_SLASH" -> <<Ins(OP_DIVIDE)>>

BothNumbers(l, r) == IS_NUMBER(l.val) /\ IS_NUMBER(r.val)

\* The value of `l op r` for an operator token of type op.
ApplyBinary(op, l, r) ==
    LET a == AS_NUMBER(l.val)
        b == AS_NUMBER(r.val)
        numeric == op \notin {"TOKEN_EQUAL_EQUAL", "TOKEN_BANG_EQUAL"}
        terr == l.terr \/ r.terr \/ (numeric /\ ~BothNumbers(l, r))
        val ==
            CASE op = "TOKEN_EQUAL_EQUAL" -> BOOL_VAL(valuesEqual(l.val, r.val))
              [] op = "TOKEN_BANG_EQUAL" -> BOOL_VAL(~valuesEqual(l.val, r.val))
              [] terr -> NIL_VAL
              [] op = "TOKEN_PLUS" -> NUMBER_VAL(NumAdd(a, b))
              [] op = "TOKEN_MINUS" -> NUMBER_VAL(NumSub(a, b))
              [] op = "TOKEN_STAR" -> NUMBER_VAL(NumMul(a, b))
              [] op = "TOKEN_SLASH" -> NUMBER_VAL(NumDiv(a, b))
              [] op = "TOKEN_LESS" -> BOOL_VAL(NumLess(a, b))
              [] op = "TOKEN_GREATER" -> BOOL_VAL(NumGreater(a, b))
              [] op = "TOKEN_LESS_EQUAL" -> BOOL_VAL(~NumGreater(a, b))
              [] op = "TOKEN_GREATER_EQUAL" -> BOOL_VAL(~NumLess(a, b))
    IN Parsed(r.pos, val, terr, Max(l.need, 1 + r.need),
              l.code \o r.code \o OperatorCode(op))

ApplyUnary(op, r) ==
    IF op = "TOKEN_BANG"
    THEN Parsed(r.pos, BOOL_VAL(isFalsey(r.val)), r.terr, r.need,
                Append(r.code, Ins(OP_NOT)))
    ELSE IF r.terr \/ ~IS_NUMBER(r.val)
    THEN Parsed(r.pos, NIL_VAL, TRUE, r.need, Append(r.code, Ins(OP_NEGATE)))
    ELSE Parsed(r.pos, NUMBER_VAL(NumNeg(AS_NUMBER(r.val))), FALSE, r.need,
                Append(r.code, Ins(OP_NEGATE)))

RECURSIVE GEquality(_, _, _), GComparison(_, _, _), GTerm(_, _, _), GFactor(_, _, _)
RECURSIVE GUnary(_, _, _), GPrimary(_, _, _), GRestN(_, _, _, _, _)

\* At most n repetitions of ( op operand ) after the left operand l, for the
\* operators of one level; stop tells that the repetition has ended.
GRestN(src, ts, level, l, n) ==
    IF n <= 1
    THEN LET ops == CASE level = "equality" -> {"TOKEN_EQUAL_EQUAL", "TOKEN_BANG_EQUAL"}
                      [] level = "comparison" ->
                            {"TOKEN_GREATER", "TOKEN_GREATER_EQUAL",
                             "TOKEN_LESS", "TOKEN_LESS_EQUAL"}
                      [] level = "term" -> {"TOKEN_PLUS", "TOKEN_MINUS"}
                      [] level = "factor" -> {"TOKEN_STAR", "TOKEN_SLASH"}
             r == CASE level = "equality" -> GComparison(src, ts, l.pos + 1)
                    [] level = "comparison" -> GTerm(src, ts, l.pos + 1)
                    [] level = "term" -> GFactor(src, ts, l.pos + 1)
                    [] level = "factor" -> GUnary(src, ts, l.pos + 1)
         IN IF ~l.ok \/ ts[l.pos].type \notin ops THEN [e |-> l, stop |-> TRUE]
            ELSE IF ~r.ok THEN [e |-> NoParse, stop |-> TRUE]
            ELSE [e |-> ApplyBinary(ts[l.pos].type, l, r), stop |-> FALSE]
    ELSE LET a == GRestN(src, ts, level, l, n \div 2) IN
         IF a.stop THEN a ELSE GRestN(src, ts, level, a.e, n - (n \div 2))

\* ( op operand )* after the left operand l: fewer repetitions than tokens.
GRest(src, ts, level, l) == GRestN(src, ts, level, l, Len(ts)).e

GEquality(src, ts, i) == GRest(src, ts, "equality", GComparison(src, ts, i))

GComparison(src, ts, i) == GRest(src, ts, "comparison", GTerm(src, ts, i))

GTerm(src, ts, i) == GRest(src, ts, "term", GFactor(src, ts, i))

GFactor(src, ts, i) == GRest(src, ts, "factor", GUnary(src, ts, i))

GUnary(src, ts, i) ==
    IF ts[i].type \in {"TOKEN_BANG", "TOKEN_MINUS"}
    THEN LET r == GUnary(src, ts, i + 1)
         IN IF r.ok THEN ApplyUnary(ts[i].type, r) ELSE NoParse
    ELSE GPrimary(src, ts, i)

GPrimary(src, ts, i) ==
    LET t == ts[i] IN
    CASE t.type = "TOKEN_NUMBER" ->
            Parsed(i + 1, NUMBER_VAL(LiteralValue(src, t)), FALSE, 1,
                   <<InsConstant(NUMBER_VAL(LiteralValue(src, t)))>>)
      [] t.type = "TOKEN_TRUE" ->
            Parsed(i + 1, BOOL_VAL(TRUE), FALSE, 1, <<Ins(OP_TRUE)>>)
      [] t.type = "TOKEN_FALSE" ->
            Parsed(i + 1, BOOL_VAL(FALSE), FALSE, 1, <<Ins(OP_FALSE)>>)
      [] t.type = "TOKEN_NIL" -> Parsed(i + 1, NIL_VAL, FALSE, 1, <<Ins(OP_NIL)>>)
      [] t.type = "TOKEN_LEFT_PAREN" ->
            LET e == GEquality(src, ts, i + 1)
            IN IF e.ok /\ ts[e.pos].type = "TOKEN_RIGHT_PAREN"
               THEN Parsed(e.pos + 1, e.val, e.terr, e.need, e.code)
               ELSE NoParse
      [] OTHER -> NoParse

\* The parse of a whole source: one expression, then EOF.
ParseSource(src) ==
    LET ts == TokensOf(src)
        e == IF ts = <<>> THEN NoParse ELSE GEquality(src, ts, 1)
    IN IF e.ok /\ ts[e.pos].type = "TOKEN_EOF" THEN e ELSE NoParse

Grammatical(src) == ParseSource(src).ok

NumberTokens(src) ==
    LET ts == TokensOf(src) IN Cardinality({i \in 1..Len(ts) : ts[i].type = "TOKEN_NUMBER"})

\* The NUMBER tokens of a source, in source order.
NumberTokensOf(src) == SelectSeq(TokensOf(src), LAMBDA t : t.type = "TOKEN_NUMBER")

\* The next n instructions of a chunk from an offset, each with its opcode,
\* operand byte (-1 when the opcode takes none) and the offset of the opcode
\* byte, and the offset behind them.
RECURSIVE DecodeN(_, _, _)
DecodeN(c, offset, n) ==
    IF n = 0 \/ offset >= c.count THEN [ins |-> <<>>, offset |-> offset]
    ELSE IF n = 1
    THEN LET op == c.code[offset + 1]
             wide == op = OP_CONSTANT
         IN [ins |-> <<[op |-> op, offset |-> offset,
                        operand |-> IF wide /\ offset + 1 < c.count
                                    THEN c.code[offset + 2] ELSE -1]>>,
             offset |-> offset + (IF wide THEN 2 ELSE 1)]
    ELSE LET a == DecodeN(c, offset, n \div 2)
             b == DecodeN(c, a.offset, n - (n \div 2))
         IN [ins |-> a.ins \o b.ins, offset |-> b.offset]

\* The instructions of a chunk in order.
Instructions(c) == DecodeN(c, 0, c.count).ins

(***************************************************************************)
(* Properties                                                              *)
(***************************************************************************)
\* compile has just returned to interpret.
Compiled == At("interpret", "compiled")

\* A compile call is in progress.
InCompile == \E i \in 1..Len(ctl) : ctl[i].fn = "compile"

Returned == result # ""

Is(src) == SourceOf(mem) = src

NumberOut(i) == <<[text |-> "%g", number |-> IntNum(i)]>>

WordOut(w) == <<[text |-> w, number |-> IntNum(0)]>>

Src_1_plus_2_times_3 == <<"1", " ", "+", " ", "2", " ", "*", " ", "3">>

Src_grouped ==
    <<"(", "-", "1", " ", "+", " ", "2", ")", " ", "*", " ", "3", " ", "-", " ", "-", "4">>

Src_not_compare ==
    <<"!", "(", "5", " ", "-", " ", "4", " ", ">", " ", "3", " ", "*", " ", "2", " ",
      "=", "=", " ", "!", "n", "i", "l", ")">>

Src_1_plus_true == <<"1", " ", "+", " ", "t", "r", "u", "e">>

Src_unclosed == <<"(", "1", " ", "+", " ", "2">>

\* What C1 promises of a parsed source e: the run ends OK having printed the
\* value of the parse tree.
PrintsParseTree(e) ==
    /\ ctl # Crashed
    /\ Returned => result = "INTERPRET_OK" /\ out = <<printValue(e.val)>>

\* Every NUMBER token of the source is a run of digits without a fraction.
IntegerLiterals(src) ==
    LET ns == NumberTokensOf(src)
    IN \A k \in 1..Len(ns) :
          \A i \in ns[k].start..(ns[k].start + ns[k].length - 1) : src[i] # "."

CompileVerdict ==
    LET src == SourceOf(mem) IN
    /\ Compiled =>
          /\ Top.ok => Grammatical(src)
          /\ (Grammatical(src) /\ NumberTokens(src) <= UINT8_MAX + 1) => Top.ok
    /\ Compiled /\ Is(Src_unclosed) =>
          /\ ~Top.ok
          /\ errout = <<[line |-> 1, loc |-> <<" at end">>,
                         message |-> "Expect ')' after expression."]>>

\* C2: for a source with at most 256 NUMBER tokens, compile returns true
\* exactly when the token sequence is one expression of the grammar followed
\* by EOF; a missing operand, missing ')', trailing token, non-expression
\* token or scanner ERROR token makes compile return false: once a fault of
\* the source has been reported the call goes on to return, it does not
\* fault.
C2_CompileReturnsVerdict ==
    /\ CompileVerdict
    /\ (InCompile \/ ctl = Crashed) /\ parser.hadError => ctl # Crashed

\* run is about to execute an arithmetic, ordering or negation instruction
\* on an operand that is not a Number.
NonNumberOperand ==
    /\ At("run", "dispatch")
    /\ vm.ip < chunk.count
    /\ \/ /\ Instruction \in BinaryOps
          /\ Len(vm.stack) >= 2
          /\ ~IS_NUMBER(peekStack(0)) \/ ~IS_NUMBER(peekStack(1))
       \/ /\ Instruction = OP_NEGATE
          /\ Len(vm.stack) >= 1
          /\ ~IS_NUMBER(peekStack(0))

\* run has returned RUNTIME_ERROR to interpret, or interpret has returned it.
RuntimeErrorRaised ==
    \/ At("interpret", "ran") /\ Top.res = "INTERPRET_RUNTIME_ERROR"
    \/ result = "INTERPRET_RUNTIME_ERROR"

\* C3: when ADD, SUBTRACT, MULTIPLY, DIVIDE, GREATER, LESS or NEGATE meets an
\* operand that is not a Number, the step reports one runtime error naming
\* the instruction's line, leaves the operand stack empty, prints nothing and
\* makes run return RUNTIME_ERROR; afterwards no instruction is executed, no
\* value is printed, the stack stays empty and interpret returns
\* RUNTIME_ERROR.
C3_RuntimeErrorStops ==
    [][/\ NonNumberOperand =>
            /\ vm'.stack = <<>>
            /\ errout' = Append(errout,
                   [line |-> chunk.lines[vm.ip + 1], loc |-> <<" in script">>,
                    message |-> IF Instruction = OP_NEGATE
                                THEN "Operand must be a number."
                                ELSE "Operands must be numbers."])
            /\ out' = out
            /\ nexec' = nexec + 1
            /\ At("interpret", "ran")'
            /\ RuntimeErrorRaised'
       /\ RuntimeErrorRaised =>
            /\ nexec' = nexec
            /\ errout' = errout
            /\ out' = <<>>
            /\ vm'.stack = <<>>
            /\ result' = "INTERPRET_RUNTIME_ERROR"]_vars

C3_Witness ==
    /\ result = "INTERPRET_RUNTIME_ERROR"
    /\ Is(Src_1_plus_true)
    /\ nexec = 3
    /\ vm.stack = <<>>
    /\ out = <<>>
    /\ errout = <<[line |-> 1, loc |-> <<" in script">>,
                   message |-> "Operands must be numbers."]>>

\* C4: interpret returns COMPILE_ERROR exactly when compile returned false,
\* and then no instruction was executed and nothing was printed; otherwise it
\* returns what the VM's run returned (OK after the one RETURN printed a
\* value, RUNTIME_ERROR after a report); and on every path the chunk is
\* freed before interpret returns.
C4_InterpretStatus ==
    /\ Returned =>
          /\ chunk = initChunk
          /\ result \in {"INTERPRET_OK", "INTERPRET_COMPILE_ERROR",
                         "INTERPRET_RUNTIME_ERROR"}
          /\ result = "INTERPRET_COMPILE_ERROR" <=> parser.hadError
          /\ result = "INTERPRET_COMPILE_ERROR" =>
                nexec = 0 /\ out = <<>> /\ vm.chunk = "NULL"
          /\ result # "INTERPRET_COMPILE_ERROR" => nexec > 0 /\ vm.chunk = "chunk"
          /\ result = "INTERPRET_OK" <=> Len(out) = 1
          /\ result = "INTERPRET_OK" => Len(errout) = 0
          /\ result = "INTERPRET_RUNTIME_ERROR" =>
                Len(errout) = 1 /\ errout[1].loc = <<" in script">>
    /\ Compiled => (Top.ok <=> ~parser.hadError)
    /\ At("interpret", "ran") =>
          Top.res \in {"INTERPRET_OK", "INTERPRET_RUNTIME_ERROR"}
    /\ nexec > 0 => ~parser.hadError

C4_Witness ==
    /\ result = "INTERPRET_COMPILE_ERROR"
    /\ Is(Src_unclosed)
    /\ chunk = initChunk
    /\ nexec = 0

\* The token in parser.current was scanned from a `"` of the source.
StringScanned ==
    /\ parser.current # ZeroToken
    /\ scanner.start >= 1
    /\ scanner.start < NulPos(mem)
    /\ mem[scanner.start] = "\""

\* The indexes of the `"` characters between the token's opening quote and
\* the end of the source.
ClosingQuotes == {j \in (scanner.start + 1)..(NulPos(mem) - 1) : mem[j] = "\""}

\* C5: scanning at a `"` yields an ERROR token with message
\* "Unterminated string." exactly when the end of input comes before a
\* closing `"`; otherwise it yields a STRING token whose slice runs from the
\* opening quote through the closing quote.
C5_StringTokens ==
    StringScanned =>
        IF ClosingQuotes = {}
        THEN /\ parser.current.type = "TOKEN_ERROR"
             /\ parser.current.msg = "Unterminated string."
        ELSE /\ parser.current.type = "TOKEN_STRING"
             /\ parser.current.start = scanner.start
             /\ parser.current.start + parser.current.length - 1
                    = CHOOSE j \in ClosingQuotes : \A k \in ClosingQuotes : j <= k

\* The CONSTANT instructions of a chunk, in order.
ConstantInstructions(c) == SelectSeq(Instructions(c), LAMBDA i : i.op = OP_CONSTANT)

\* C6: in every chunk produced by a compile call that returns true, every
\* CONSTANT instruction's operand is smaller than the number of values in the
\* constant pool, and the pool value at that operand is the Number denoted by
\* the literal the instruction was compiled from (the k-th CONSTANT
\* instruction comes from the k-th NUMBER token).
C6_ConstantOperands ==
    (Compiled /\ Top.ok) =>
        LET src == SourceOf(mem)
            cs == ConstantInstructions(chunk)
            ns == NumberTokensOf(src)
        IN /\ Len(cs) = Len(ns)
           /\ \A k \in 1..Len(cs) :
                 /\ cs[k].operand >= 0
                 /\ cs[k].operand < chunk.constants.count
                 /\ chunk.constants.values[cs[k].operand + 1]
                        = NUMBER_VAL(LiteralValue(src, ns[k]))

C6_Witness ==
    /\ Compiled
    /\ Top.ok
    /\ Is(LongSum(UINT8_MAX + 1))
    /\ Len(ConstantInstructions(chunk)) = UINT8_MAX + 1
    /\ chunk.constants.count = UINT8_MAX + 1

\* C7: the constant pool of a chunk holds at most 256 values at every point
\* of a compile call, also for a source with more than 256 number literals.
C7_PoolAtMost256 == chunk.constants.count <= UINT8_MAX + 1

\* C8: after any sequence of initChunk, writeChunk, addConstant and freeChunk
\* calls on a chunk, lines holds exactly as many entries as code, and entry i
\* of lines is the line passed to the writeChunk call that wrote byte i of
\* code.
C8_LinesParallelCode ==
    /\ chunk.count = Len(wlog)
    /\ Len(chunk.lines) = Len(chunk.code)
    /\ chunk.count <= Len(chunk.code)
    /\ \A i \in 1..chunk.count :
          /\ chunk.code[i] = wlog[i].byte
          /\ chunk.lines[i] = wlog[i].line

C8_Witness ==
    /\ chunk.count = 9
    /\ chunk.capacity = 16
    /\ chunk.lines[1] = 2
    /\ chunk.lines[9] = 1
    /\ chunk.constants.count = 1

\* C9: for a valid expression source, the code of the chunk compile leaves
\* ends with a RETURN instruction and holds no RETURN instruction before it.
C9_EndsWithOneReturn ==
    (Compiled /\ Grammatical(SourceOf(mem))) =>
        LET is == Instructions(chunk) IN
        /\ Len(is) >= 2
        /\ is[Len(is)].op = OP_RETURN
        /\ is[Len(is)].offset = chunk.count - 1
        /\ \A k \in 1..(Len(is) - 1) : is[k].op # OP_RETURN

C9_Witness ==
    /\ Compiled
    /\ Top.ok
    /\ Is(Src_grouped)
    /\ chunk.count = 14
    /\ chunk.code[chunk.count] = OP_RETURN

\* C10: within one compile call, once an error has been reported every later
\* error report is dropped: panicMode, once set, stays set until compile
\* returns, the error stream does not grow while it is set, and so a compile
\* call writes at most one diagnostic.
C10_OneDiagnosticPerCompile ==
    [][/\ (InCompile /\ ~At("compile", "begin") /\ parser.panicMode) =>
            /\ parser'.panicMode
            /\ parser'.hadError
            /\ errout' = errout
       /\ InCompile => Len(errout') <= 1]_vars

\* advance has just scanned a second ERROR token while in panic mode: its
\* message is not the one that was reported.
C10_Witness ==
    /\ At("advance", "scan")
    /\ parser.panicMode
    /\ Len(errout) = 1
    /\ parser.current.type = "TOKEN_ERROR"
    /\ parser.current.msg # errout[1].message

\* C11: the first 256 number literals compiled get the operands 0 to 255 in
\* source order; every later one still emits CONSTANT with operand 0, the
\* rest of the expression is compiled (one CONSTANT instruction per NUMBER
\* token of a grammatical source), "Too many constants in one chunk." is
\* reported at the 257th literal and compile returns false.
C11_ConstantBudget ==
    Compiled =>
        LET src == SourceOf(mem)
            cs == ConstantInstructions(chunk)
            ns == NumberTokensOf(src)
        IN /\ \A k \in 1..Len(cs) :
                 cs[k].operand = IF k <= UINT8_MAX + 1 THEN k - 1 ELSE 0
           /\ Len(cs) > UINT8_MAX + 1 => ~Top.ok /\ parser.hadError
           /\ Grammatical(src) =>
                 /\ Len(cs) = Len(ns)
                 /\ Top.ok <=> Len(ns) <= UINT8_MAX + 1
                 /\ Len(ns) > UINT8_MAX + 1 =>
                       errout = <<[line |-> ns[UINT8_MAX + 2].line,
                                   loc |-> <<" at ">> \o
                                       Lexeme(mem, ns[UINT8_MAX + 2].start,
                                              ns[UINT8_MAX + 2].start
                                                  + ns[UINT8_MAX + 2].length),
                                   message |-> "Too many constants in one chunk."]>>

C11_Witness ==
    /\ Compiled
    /\ Is(LongSum(UINT8_MAX + 3))
    /\ ~Top.ok
    /\ Len(ConstantInstructions(chunk)) = UINT8_MAX + 3
    /\ ConstantInstructions(chunk)[UINT8_MAX + 3].operand = 0
    /\ Len(errout) = 1

\* run is about to execute the instruction with opcode op.
AtInstruction(op) ==
    /\ At("run", "dispatch")
    /\ vm.ip < chunk.count
    /\ Instruction = op

\* a and b have the same variant and are both Nil, or equal Bools, or equal
\* Numbers.
SameValue(a, b) ==
    \/ IS_NIL(a) /\ IS_NIL(b)
    \/ IS_BOOL(a) /\ IS_BOOL(b) /\ AS_BOOL(a) = AS_BOOL(b)
    \/ IS_NUMBER(a) /\ IS_NUMBER(b) /\ NumEq(AS_NUMBER(a), AS_NUMBER(b))

Src_nil_eq_false == <<"n", "i", "l", " ", "=", "=", " ", "f", "a", "l", "s", "e">>

Src_nan_eq_nan ==
    <<"(", "0", "/", "0", ")", " ", "=", "=", " ", "(", "0", "/", "0", ")">>

\* C12: EQUAL raises no runtime error for any pair of operands: it replaces
\* the two top values a, b by a Bool that is true exactly when they have the
\* same variant and are both Nil, equal Bools or equal Numbers; the result
\* for (a, b) is the result for (b, a); `nil == false` prints false.
C12_EqualTotalSymmetric ==
    [][/\ AtInstruction(OP_EQUAL) =>
            LET a == peekStack(1)
                b == peekStack(0)
            IN /\ Len(vm.stack) >= 2
               /\ vm'.stack = Append(Drop(vm.stack, 2), BOOL_VAL(SameValue(a, b)))
               /\ SameValue(a, b) = SameValue(b, a)
               /\ valuesEqual(a, b) = valuesEqual(b, a)
               /\ errout' = errout
               /\ out' = out
               /\ At("run", "dispatch")'
       /\ (Returned /\ Is(Src_nil_eq_false) => out = WordOut("false"))']_vars

C12_Witness ==
    /\ result = "INTERPRET_OK"
    /\ Is(Src_nan_eq_nan)
    /\ out = WordOut("false")

\* The values NOT turns into true.
FalseyValues == {NIL_VAL, BOOL_VAL(FALSE)}

NotOf(v) == BOOL_VAL(v \in FalseyValues)

\* What is printed for the operand text a under n NOT operators.
NotPrinted(a, n) ==
    LET v == ParseSource(a).val
    IN <<printValue(IF n = 2 THEN BOOL_VAL(v \notin FalseyValues) ELSE NotOf(v))>>

\* C13: NOT raises no runtime error and replaces the top value v by
\* Bool(true) exactly when v is Nil or Bool(false), by Bool(false) for every
\* other value, Number 0 included; NOT applied twice gives Bool(truthy(v))
\* and applied three times gives what one application gives.
C13_NotTruthiness ==
    [][/\ AtInstruction(OP_NOT) =>
            LET v == peekStack(0)
            IN /\ Len(vm.stack) >= 1
               /\ vm'.stack = Append(Drop(vm.stack, 1), NotOf(v))
               /\ NotOf(NotOf(v)) = BOOL_VAL(v \notin FalseyValues)
               /\ NotOf(NotOf(NotOf(v))) = NotOf(v)
               /\ errout' = errout
               /\ out' = out
               /\ At("run", "dispatch")'
       /\ Returned' =>
             \A a \in OperandTexts :
                /\ Is(<<"!">> \o a)' => out' = NotPrinted(a, 1)
                /\ Is(<<"!", "!">> \o a)' => out' = NotPrinted(a, 2)
                /\ Is(<<"!", "!", "!">> \o a)' => out' = NotPrinted(a, 3)]_vars

C13_Witness ==
    /\ result = "INTERPRET_OK"
    /\ Is(<<"!", "!", "!", "0">>)
    /\ nexec = 5
    /\ out = WordOut("false")

\* a op b for the numeric instruction with opcode op.
ExpectedBinary(op, a, b) ==
    CASE op = OP_ADD -> NUMBER_VAL(NumAdd(a, b))
      [] op = OP_SUBTRACT -> NUMBER_VAL(NumSub(a, b))
      [] op = OP_MULTIPLY -> NUMBER_VAL(NumMul(a, b))
      [] op = OP_DIVIDE -> NUMBER_VAL(NumDiv(a, b))
      [] op = OP_GREATER -> BOOL_VAL(NumGreater(a, b))
      [] op = OP_LESS -> BOOL_VAL(NumLess(a, b))

\* C14: a numeric instruction with two Number operands takes the top value
\* as the right operand b and the value beneath it as the left operand a,
\* removes exactly these two and pushes exactly a op b, leaving every slot
\* below unchanged; so `2 - 1` prints 1 and `1 < 2` prints true.
C14_OperandOrder ==
    [][/\ (/\ At("run", "dispatch")
           /\ vm.ip < chunk.count
           /\ Instruction \in BinaryOps
           /\ Len(vm.stack) >= 2
           /\ IS_NUMBER(peekStack(0))
           /\ IS_NUMBER(peekStack(1))) =>
            LET n == Len(vm.stack)
                a == AS_NUMBER(vm.stack[n - 1])
                b == AS_NUMBER(vm.stack[n])
            IN /\ Len(vm'.stack) = n - 1
               /\ vm'.stack[n - 1] = ExpectedBinary(Instruction, a, b)
               /\ \A i \in 1..(n - 2) : vm'.stack[i] = vm.stack[i]
               /\ errout' = errout
               /\ out' = out
               /\ At("run", "dispatch")'
       /\ (Returned =>
             /\ Is(<<"2", " ", "-", " ", "1">>) => out = NumberOut(1)
             /\ Is(<<"1", " ", "<", " ", "2">>) => out = WordOut("true"))']_vars

\* SUBTRACT has just run above another value: nil == 2-1.
C14_Witness ==
    /\ At("run", "dispatch")
    /\ Is(<<"n", "i", "l", " ", "=", "=", " ", "2", "-", "1">>)
    /\ vm.stack = <<NIL_VAL, NUMBER_VAL(IntNum(1))>>

\* The scanToken calls up to the one that returned the first EOF.
RECURSIVE UpToEof(_)
UpToEof(ts) ==
    IF ts = <<>> THEN <<>>
    ELSE IF Head(ts).token.type = "TOKEN_EOF" THEN <<Head(ts)>>
    ELSE <<Head(ts)>> \o UpToEof(Tail(ts))

\* The source characters a call stands for: the slice of its token, or for
\* an ERROR token, whose slice is the message, the characters it consumed.
SliceStart(t) == IF t.token.type = "TOKEN_ERROR" THEN t.start ELSE t.token.start

SliceEnd(t) ==
    IF t.token.type = "TOKEN_ERROR" THEN t.current
    ELSE t.token.start + t.token.length

\* Only whitespace and comments lie between buffer positions from and to.
SkippedBetween(m, from, to) == skipWhitespace(m, from, 1).current = to

\* C15: the tokens returned up to the first EOF have slices inside the
\* source, disjoint and in increasing order, with only skipped whitespace
\* and comments before and between them, and the EOF token sits at the end
\* of the source, so that slices and skipped text together are the source.
C15_SlicesTileSource ==
    LET ts == UpToEof(tokens)
        end == NulPos(mem)
    IN /\ ctl # Crashed
       /\ \A i \in 1..Len(ts) :
             /\ 1 <= SliceStart(ts[i])
             /\ SliceStart(ts[i]) <= SliceEnd(ts[i])
             /\ SliceEnd(ts[i]) <= end
             /\ SkippedBetween(mem, IF i = 1 THEN 1 ELSE SliceEnd(ts[i - 1]),
                               SliceStart(ts[i]))
             /\ ts[i].token.type = "TOKEN_EOF" => SliceStart(ts[i]) = end

\* C16: once a scanToken call has left current at or behind the end of the
\* source, every later call returns EOF and leaves current where it was.
C16_EofRepeats ==
    /\ (scanner.current >= NulPos(mem) /\ tokens # <<>>) => ctl # Crashed
    /\ \A i \in 1..Len(tokens) : \A j \in (i + 1)..Len(tokens) :
          tokens[i].current >= NulPos(mem) =>
             /\ tokens[j].token.type = "TOKEN_EOF"
             /\ tokens[j].current = tokens[i].current

\* What interpret is to return for source src, and what it is to print,
\* going by the grammar alone.
ExpectedStatus(src) ==
    LET e == ParseSource(src)
    IN IF ~e.ok \/ NumberTokens(src) > UINT8_MAX + 1 THEN "INTERPRET_COMPILE_ERROR"
       ELSE IF e.terr THEN "INTERPRET_RUNTIME_ERROR"
       ELSE "INTERPRET_OK"

ExpectedOut(src) ==
    IF ExpectedStatus(src) = "INTERPRET_OK"
    THEN <<printValue(ParseSource(src).val)>>
    ELSE <<>>

\* Every interpret call made so far returned what its source alone
\* determines.
CallsBySource ==
    \A i \in 1..Len(proc.calls) :
        /\ proc.calls[i].status = ExpectedStatus(proc.calls[i].src)
        /\ proc.calls[i].out = ExpectedOut(proc.calls[i].src)

\* C17: whatever interpret calls came before in the process, a call of
\* interpret(s) returns, with the status and the printed value that s alone
\* determines, and starts with an empty VM stack and an empty chunk.
C17_CallsIndependent ==
    /\ ctl # Crashed
    /\ CallsBySource
    /\ At("interpret", "begin") => vm.stack = <<>>
    /\ At("compile", "begin") => chunk = initChunk

\* The sources of the calls, one after the other.
RECURSIVE SourcesOf(_)
SourcesOf(calls) ==
    IF calls = <<>> THEN <<>> ELSE Head(calls).src \o SourcesOf(Tail(calls))

Exited == ctl = <<>>

\* C18: with more than one argument the process exits with 64 and
\* interprets nothing; running a file it exits with 65 exactly after
\* COMPILE_ERROR, with 70 exactly after RUNTIME_ERROR and with 0 exactly
\* after OK; at the prompt no interpret status ends the process or sets the
\* exit status: every line of stdin is interpreted in turn, whatever the
\* calls before it returned, and the process then exits with 0.
C18_ExitStatus ==
    /\ proc.exit = 64 <=> (proc.argc > 2 /\ Exited)
    /\ proc.argc > 2 => proc.started = 0 /\ out = <<>> /\ nexec = 0 /\ result = ""
    /\ (proc.argc = 2 /\ Exited /\ proc.path = "readable") =>
          /\ Len(proc.calls) = 1
          /\ proc.calls[1].src = SubSeq(proc.given, 1, Len(proc.calls[1].src))
          /\ proc.exit = 65 <=> proc.calls[1].status = "INTERPRET_COMPILE_ERROR"
          /\ proc.exit = 70 <=> proc.calls[1].status = "INTERPRET_RUNTIME_ERROR"
          /\ proc.exit = 0 <=> proc.calls[1].status = "INTERPRET_OK"
    /\ proc.argc = 1 =>
          /\ proc.exit \in {-1, 0}
          /\ Exited <=> proc.exit = 0
          /\ (At("repl", "prompt") \/ Exited) =>
                /\ SourcesOf(proc.calls) \o proc.input = proc.given
                /\ Len(proc.calls) = proc.started
          /\ Exited => proc.input = <<>>

\* The prompt read a runtime error, then a compile error, and the process
\* ended with 0.
C18_Witness ==
    /\ proc.argc = 1
    /\ proc.exit = 0
    /\ Len(proc.calls) = 2
    /\ proc.calls[1].status = "INTERPRET_RUNTIME_ERROR"
    /\ proc.calls[2].status = "INTERPRET_COMPILE_ERROR"

\* The place of the instruction at offset off among the instructions of
\* chunk c, 0 when off is not the offset of an opcode byte.
OpcodeIndex(c, off) ==
    LET ins == Instructions(c)
        ks == {k \in 1..Len(ins) : ins[k].offset = off}
    IN IF ks = {} THEN 0 ELSE CHOOSE k \in ks : TRUE

\* C19: when run raises a runtime error, vm.ip - code - 1 lies inside the
\* code and is the offset of the opcode byte of the instruction that failed,
\* the one being executed, never of an operand or of a neighbour; the line
\* reported is the one stored for that byte, which is the line of the token
\* the compiler had consumed last when it emitted the opcode.
C19_ErrorLineOfOpcode ==
    [][NonNumberOperand =>
          LET instruction == vm'.ip - 1
              k == OpcodeIndex(chunk, instruction)
          IN /\ instruction >= 0
             /\ instruction < chunk.count
             /\ k = nexec + 1
             /\ chunk.code[instruction + 1] = Instruction
             /\ Instruction \in BinaryOps \cup {OP_NEGATE}
             /\ Len(errout') = Len(errout) + 1
             /\ errout'[Len(errout')].line = chunk.lines[instruction + 1]
             /\ Is(Src_negate_then_line) => errout'[1].line = 1
             /\ Is(Src_negate_after_line) => errout'[1].line = 2
             /\ Is(Src_1_plus_true) => errout'[1].line = 1
             /\ Is(<<"1", " ", "+", "\n", " ", "t", "r", "u", "e">>) =>
                   errout'[1].line = 2
             /\ Is(<<"\n", "\n", "-", "n", "i", "l">>) => errout'[1].line = 3]_vars

C19_Witness ==
    /\ result = "INTERPRET_RUNTIME_ERROR"
    /\ Is(Src_negate_then_line)
    /\ nexec = 2
    /\ Len(errout) = 1
    /\ errout[1].line = 1
    /\ chunk = initChunk

\* C20: on every source compile comes to its end: it emits RETURN and
\* returns its flag to interpret.
C20_CompileTerminates == <>Compiled

\* C21: addConstant puts the value at the end of the pool and returns the
\* size the pool had before, also when an equal value is in the pool; it
\* changes no value stored earlier and leaves count, code and lines alone;
\* writeChunk leaves the pool and every earlier byte and line alone.
C21_AppendOnly ==
    [][/\ \A v \in ConstantArgs :
             LET n == chunk.constants.count
                 r == addConstant(chunk, v)
             IN /\ r.index = n
                /\ r.chunk.constants.count = n + 1
                /\ r.chunk.constants.values[n + 1] = v
                /\ \A i \in 1..n : r.chunk.constants.values[i] = chunk.constants.values[i]
                /\ r.chunk.code = chunk.code
                /\ r.chunk.lines = chunk.lines
                /\ r.chunk.count = chunk.count
                /\ r.chunk.capacity = chunk.capacity
       /\ chunk'.constants.count = chunk.constants.count + 1 =>
             /\ chunk' = [chunk EXCEPT !.constants = chunk'.constants]
             /\ chunk'.constants.values[chunk'.constants.count] \in ConstantArgs
             /\ \A i \in 1..chunk.constants.count :
                   chunk'.constants.values[i] = chunk.constants.values[i]
       /\ chunk'.count = chunk.count + 1 =>
             /\ chunk'.constants = chunk.constants
             /\ \A i \in 1..chunk.count :
                   /\ chunk'.code[i] = chunk.code[i]
                   /\ chunk'.lines[i] = chunk.lines[i]]_vars

\* The same value was added twice, between writes.
C21_Witness ==
    /\ chunk.constants.count = 2
    /\ chunk.constants.values[1] = chunk.constants.values[2]
    /\ chunk.count = 9
    /\ chunk.capacity = 16

\* The instructions of chunk c with the value each CONSTANT loads.
Emitted(c) ==
    LET ins == Instructions(c)
    IN [k \in 1..Len(ins) |->
          IF ins[k].op = OP_CONSTANT
          THEN InsConstant(IF ins[k].operand >= 0 /\ ins[k].operand < c.constants.count
                           THEN c.constants.values[ins[k].operand + 1]
                           ELSE UninitValue)
          ELSE Ins(ins[k].op)]

Src_8_minus_3_minus_2 == <<"8", " ", "-", " ", "3", " ", "-", " ", "2">>

\* C22: for every grammatical expression the instructions before the final
\* RETURN are the post-order of its parse tree (left operand, right operand,
\* operator; operand, unary operator), with equal precedence grouping to the
\* left: `8 - 3 - 2` gives 8 3 SUBTRACT 2 SUBTRACT.  With more than 256
\* number literals the opcodes are still in that order.
C22_PostOrderCode ==
    Compiled =>
        LET src == SourceOf(mem)
            e == ParseSource(src)
            code == Emitted(chunk)
        IN /\ e.ok =>
                /\ Len(code) = Len(e.code) + 1
                /\ code[Len(code)] = Ins(OP_RETURN)
                /\ \A k \in 1..Len(e.code) : code[k].op = e.code[k].op
                /\ NumberTokens(src) <= UINT8_MAX + 1 =>
                      SubSeq(code, 1, Len(e.code)) = e.code
           /\ Is(Src_8_minus_3_minus_2) =>
                code = <<InsConstant(NUMBER_VAL(IntNum(8))),
                         InsConstant(NUMBER_VAL(IntNum(3))), Ins(OP_SUBTRACT),
                         InsConstant(NUMBER_VAL(IntNum(2))), Ins(OP_SUBTRACT),
                         Ins(OP_RETURN)>>

C22_Witness ==
    /\ Compiled
    /\ Top.ok
    /\ Is(Src_8_minus_3_minus_2)
    /\ chunk.count = 9
    /\ chunk.code[5] = OP_SUBTRACT
    /\ chunk.code[8] = OP_SUBTRACT

\* The operand expression a evaluates to NaN.
IsNaNText(a) == ParseSource(a).val.number.k = "nan"

\* The operand expressions whose value is a Number.
NumberTexts == {a \in OperandTexts : IS_NUMBER(ParseSource(a).val)}

\* The source `a op b` as OperandSources writes it.
BinarySource(a, op, b) == a \o <<" ">> \o op \o <<" ">> \o b

\* The comparisons of IEEE-754: false when an operand is NaN.
NumGreaterEq(x, y) == NumGreater(x, y) \/ NumEq(x, y)

NumLessEq(x, y) == NumLess(x, y) \/ NumEq(x, y)

\* What `a op b` prints for op among != >= <= when it yields the IEEE-754
\* comparison of the operands.
ComparisonPrinted(a, op, b) ==
    LET x == AS_NUMBER(ParseSource(a).val)
        y == AS_NUMBER(ParseSource(b).val)
    IN <<printValue(BOOL_VAL(CASE op = <<"!", "=">> -> ~NumEq(x, y)
                               [] op = <<">", "=">> -> NumGreaterEq(x, y)
                               [] op = <<"<", "=">> -> NumLessEq(x, y)))>>

\* What `a op b` prints for op among != >= <= when it yields the negation
\* of ==, < and >.
NegationPrinted(a, op, b) ==
    LET x == AS_NUMBER(ParseSource(a).val)
        y == AS_NUMBER(ParseSource(b).val)
    IN <<printValue(BOOL_VAL(CASE op = <<"!", "=">> -> ~NumEq(x, y)
                               [] op = <<">", "=">> -> ~NumLess(x, y)
                               [] op = <<"<", "=">> -> ~NumGreater(x, y)))>>

NegatedTexts == {<<"!", "=">>, <<">", "=">>, <<"<", "=">>}

\* C23 as stated: for any two Number operands a and b the code emitted for
\* `a != b`, `a >= b` and `a <= b` yields a != b, a >= b and a <= b.
C23_AsStated ==
    result = "INTERPRET_OK" =>
        \A a \in NumberTexts : \A op \in NegatedTexts : \A b \in NumberTexts :
            Is(BinarySource(a, op, b)) => out = ComparisonPrinted(a, op, b)

\* C23 amended: binary emits EQUAL NOT for !=, LESS NOT for >=, GREATER NOT
\* for <= and one opcode for each other operator; for two Number operands
\* the emitted code yields a != b, !(a < b) and !(a > b), which are a >= b
\* and a <= b unless an operand is NaN; a non-Number operand of >= or <=
\* raises the runtime error at LESS or GREATER, and NOT is not executed.
C23_NegatedComparisons ==
    [][/\ At("binary", "emit") =>
             LET code == OperatorCode(Top.operatorType)
             IN /\ chunk'.count = chunk.count + Len(code)
                /\ Len(code) = IF Top.operatorType \in
                                    {"TOKEN_BANG_EQUAL", "TOKEN_GREATER_EQUAL",
                                     "TOKEN_LESS_EQUAL"}
                                 THEN 2 ELSE 1
                /\ \A k \in 1..Len(code) : chunk'.code[chunk.count + k] = code[k].op
       /\ result' = "INTERPRET_OK" =>
             \A a \in NumberTexts : \A op \in NegatedTexts : \A b \in NumberTexts :
                /\ Is(BinarySource(a, op, b))' => out' = NegationPrinted(a, op, b)
                /\ ~(IsNaNText(a) \/ IsNaNText(b)) =>
                      NegationPrinted(a, op, b) = ComparisonPrinted(a, op, b)
       /\ (NonNumberOperand /\ Instruction \in BinaryOps
              /\ chunk.code[vm.ip + 2] = OP_NOT) =>
             /\ Instruction \in {OP_LESS, OP_GREATER}
             /\ At("interpret", "ran")'
             /\ Top'.res = "INTERPRET_RUNTIME_ERROR"
             /\ vm'.ip = vm.ip + 1
       /\ RuntimeErrorRaised => nexec' = nexec]_vars

\* (0/0) >= 1 has run: NaN >= 1 is false, the code printed true.
C23_Witness ==
    /\ result = "INTERPRET_OK"
    /\ Is(BinarySource(<<"(", "0", "/", "0", ")">>, <<">", "=">>, <<"1">>))
    /\ out = WordOut("true")
    /\ nexec = 7


\* The tokens scanToken returns for source src before the first EOF or the
\* first scan that reads behind the terminator.
ScannedTokens(src) == ScanN(src \o <<NUL>>, initScanner, Len(src) + 1).tokens

\* Scanning source src yields at least one ERROR token.
HasScannerError(src) ==
    \E i \in 1..Len(ScannedTokens(src)) : ScannedTokens(src)[i].type = "TOKEN_ERROR"

\* advance reports every ERROR token and goes on scanning: outside advance
\* neither parser.current nor parser.previous is an ERROR token, so no handler
\* is looked up for one; an ERROR token held by advance has been reported or
\* dropped in panic mode; and a compile call that returns for a source with
\* a scanner error returns false.
ErrorTokensSkipped ==
    /\ (InCompile /\ Top.fn # "advance") =>
          /\ parser.current.type # "TOKEN_ERROR"
          /\ parser.previous.type # "TOKEN_ERROR"
    /\ (At("advance", "scan") /\ parser.current.type = "TOKEN_ERROR") =>
          /\ parser.hadError
          /\ parser.panicMode
          /\ Len(errout) = 1
          /\ errout[1].message \in {"Unexpected character.", "Unterminated string."}
                => errout[1].loc = <<>>
    /\ (Compiled /\ HasScannerError(SourceOf(mem))) => ~Top.ok

\* C24: every ERROR token is passed to errorAtCurrent with the scanner's
\* message and skipped: when advance returns parser.current is not an ERROR
\* token, no prefix or infix handler is looked up for an ERROR token, and a
\* source with at least one scanner error makes compile return false: the
\* call returns, it does not fault.
C24_ErrorTokensSkipped ==
    /\ ErrorTokensSkipped
    /\ HasScannerError(SourceOf(mem)) => ctl # Crashed


\* C25: over any source and any sequence of scanToken calls, current stays
\* at or before the terminator and start <= current, so no read is outside
\* the source, and every token built by makeToken has a length between 0 and
\* the number of source characters from its start to the terminator.
C25_ScannerInBounds ==
    LET end == NulPos(mem) IN
    /\ ctl # Crashed
    /\ ~At("scanner", "init") =>
          /\ scanner.start <= scanner.current
          /\ scanner.current <= end
    /\ \A i \in 1..Len(tokens) :
          /\ tokens[i].start <= tokens[i].current
          /\ tokens[i].current <= end
          /\ tokens[i].token.type # "TOKEN_ERROR" =>
                /\ 0 <= tokens[i].token.length
                /\ tokens[i].token.length <= end - tokens[i].token.start


\* The values the instruction at vm.ip pops or peeks.
Operands(op) ==
    IF op \in BinaryOps \cup {OP_EQUAL} THEN 2
    ELSE IF op \in {OP_NOT, OP_NEGATE, OP_RETURN} THEN 1
    ELSE 0

\* C26: while run executes the chunk of a compile call that returned true,
\* started on an empty stack, no instruction pops or peeks below the bottom
\* of the stack: a binary instruction finds at least two values, NOT and
\* NEGATE at least one, and RETURN exactly one.
C26_NoStackUnderflow ==
    At("run", "dispatch") =>
       /\ Len(vm.stack) >= Operands(Instruction)
       /\ Instruction = OP_RETURN => Len(vm.stack) = 1
       /\ Instruction = OP_CONSTANT => chunk.code[vm.ip + 2] < chunk.constants.count

\* run is about to multiply in `1 + 2 * 3` with three values on the stack.
C26_Witness ==
    /\ At("run", "dispatch")
    /\ Is(Src_1_plus_2_times_3)
    /\ Instruction = OP_MULTIPLY
    /\ Len(vm.stack) = 3
    /\ nexec = 3


\* C27: while run executes the chunk of a compile call that returned true,
\* the stack never holds more than STACK_MAX values, so push never writes
\* behind the end of the stack array, right-nested expressions of literals
\* included.
C27_StackWithinCapacity == Len(vm.stack) <= STACK_MAX


\* The opcodes of the instruction set.
Opcodes == OP_CONSTANT..OP_RETURN

\* run reads its instructions in order from offset 0: at each dispatch
\* vm.ip is inside the code, at the opcode byte of the next instruction
\* after the nexec executed so far, the opcode is one of the set and its
\* operand is inside the code; RETURN is the last byte; and run hands
\* interpret OK from the final RETURN or RUNTIME_ERROR from before it.
RunInBounds ==
    /\ At("run", "dispatch") =>
          /\ 0 <= vm.ip
          /\ vm.ip < chunk.count
          /\ nexec = 0 => vm.ip = 0
          /\ OpcodeIndex(chunk, vm.ip) = nexec + 1
          /\ Instruction \in Opcodes
          /\ Instruction = OP_CONSTANT => vm.ip + 1 < chunk.count
          /\ Instruction = OP_RETURN <=> vm.ip = chunk.count - 1
    /\ At("interpret", "ran") =>
          /\ Top.res \in {"INTERPRET_OK", "INTERPRET_RUNTIME_ERROR"}
          /\ vm.ip <= chunk.count
          /\ Top.res = "INTERPRET_OK" <=> vm.ip = chunk.count

\* run is dispatching an instruction.
Running == At("run", "dispatch")

\* run has handed its result to interpret.
Ran == At("interpret", "ran")

\* Once started, run ends.
RunEnds == Running ~> Ran

\* C28: the run of a chunk of a compile call that returned true terminates:
\* ip starts at offset 0, is at an opcode byte inside the code at every
\* dispatch, advances by the length of the instruction, is never read at or
\* behind the end, only opcodes of the instruction set are dispatched, and
\* the run ends at the final RETURN with OK or before it with RUNTIME_ERROR:
\* it does not end in a fault.
C28_RunTerminates ==
    /\ RunInBounds
    /\ ctl = Crashed => nexec = 0


\* interpret has just returned to its caller.
InterpretReturned == At("repl", "called") \/ At("runFile", "called")

\* C29: after initVM and any sequence of interpret calls the VM stack is
\* empty whenever an interpret call begins and whenever one returns, with
\* OK, RUNTIME_ERROR or COMPILE_ERROR, although interpret does not reset it.
C29_StackEmptyBetweenCalls ==
    /\ At("interpret", "begin") => vm.stack = <<>>
    /\ InterpretReturned =>
          /\ vm.stack = <<>>
          /\ result \in {"INTERPRET_OK", "INTERPRET_RUNTIME_ERROR",
                         "INTERPRET_COMPILE_ERROR"}

\* The second call of a session has returned a runtime error after a first
\* call that returned OK.
C29_Witness ==
    /\ At("repl", "called")
    /\ vm.stack = <<>>
    /\ result = "INTERPRET_RUNTIME_ERROR"
    /\ Len(proc.calls) = 1
    /\ proc.calls[1].status = "INTERPRET_OK"


\* compile has reset the flags and has not returned.
FlagsReset == InCompile /\ ~At("compile", "begin")

\* C30: from compile's reset of the parser flags until it returns, hadError
\* and panicMode are equal: both false as long as no diagnostic was written,
\* both true from the first one on, neither goes back to false, and compile
\* returns false exactly when at least one diagnostic was written.
C30_FlagsAgree ==
    [][/\ FlagsReset' =>
             /\ parser'.hadError = parser'.panicMode
             /\ parser'.hadError <=> errout' # <<>>
       /\ (FlagsReset /\ FlagsReset' /\ parser.hadError) =>
             /\ parser'.hadError
             /\ parser'.panicMode
       /\ (FlagsReset /\ Compiled') =>
             /\ parser' = parser
             /\ Top'.ok <=> errout' = <<>>]_vars

\* compile has returned false for `(1 + 2` with both flags set and its one
\* diagnostic written.
C30_Witness ==
    /\ Compiled
    /\ Is(Src_unclosed)
    /\ ~Top.ok
    /\ parser.hadError
    /\ parser.panicMode
    /\ Len(errout) = 1


\* The token types that index rules[], lines 285-324.
TokenTypes ==
    {"TOKEN_LEFT_PAREN", "TOKEN_RIGHT_PAREN", "TOKEN_LEFT_BRACE", "TOKEN_RIGHT_BRACE",
     "TOKEN_COMMA", "TOKEN_DOT", "TOKEN_MINUS", "TOKEN_PLUS", "TOKEN_SEMICOLON",
     "TOKEN_SLASH", "TOKEN_STAR", "TOKEN_BANG", "TOKEN_BANG_EQUAL", "TOKEN_EQUAL",
     "TOKEN_EQUAL_EQUAL", "TOKEN_GREATER", "TOKEN_GREATER_EQUAL", "TOKEN_LESS",
     "TOKEN_LESS_EQUAL", "TOKEN_IDENTIFIER", "TOKEN_STRING", "TOKEN_NUMBER",
     "TOKEN_AND", "TOKEN_CLASS", "TOKEN_ELSE", "TOKEN_FALSE", "TOKEN_FOR",
     "TOKEN_FUN", "TOKEN_IF", "TOKEN_NIL", "TOKEN_OR", "TOKEN_PRINT", "TOKEN_RETURN",
     "TOKEN_SUPER", "TOKEN_THIS", "TOKEN_TRUE", "TOKEN_VAR", "TOKEN_WHILE",
     "TOKEN_ERROR", "TOKEN_EOF"}

\* C31: in parsePrecedence the infix handler looked up for the previous
\* token inside the loop is never absent: every parsePrecedence call has a
\* precedence of at least ASSIGNMENT, the loop body is entered only for a
\* token whose rule has at least that precedence, that token is the previous
\* one at the lookup, and every rule of the table with a precedence above
\* NONE has an infix handler.
C31_InfixHandlerPresent ==
    /\ \A i \in 1..Len(ctl) :
          ctl[i].fn = "parsePrecedence" => ctl[i].precedence >= PREC_ASSIGNMENT
    /\ At("parsePrecedence", "infix") =>
          /\ parser.previous.type \in TokenTypes
          /\ getRule(parser.previous.type).precedence >= Top.precedence
          /\ getRule(parser.previous.type).infix # "NULL"
    /\ \A type \in TokenTypes :
          getRule(type).precedence > PREC_NONE => getRule(type).infix # "NULL"
    /\ (InCompile \/ ctl = Crashed) =>
          parser.current.type \in TokenTypes /\ parser.previous.type \in TokenTypes

\* parsePrecedence(PREC_ASSIGNMENT) is about to call the handler of the
\* second `-` of `8 - 3 - 2`, after `8 3 SUBTRACT` was emitted.
C31_Witness ==
    /\ At("parsePrecedence", "infix")
    /\ Is(Src_8_minus_3_minus_2)
    /\ Top.precedence = PREC_ASSIGNMENT
    /\ parser.previous.type = "TOKEN_MINUS"
    /\ chunk.count = 5

====
